---- MODULE Spec2Model ----
(***************************************************************************)
(* Model of the dd-jsx dataflow core: Delta/Change, Collection and its     *)
(* operators (core/collection.ts), Input (core/input.ts) and the           *)
(* transaction scheduler (core/tx.ts).                                     *)
(*                                                                         *)
(* The program is single threaded and synchronous.  Every public call      *)
(* (insert, retract, set, update, replace, subscribe, unsubscribe, tx) is  *)
(* one action; the callbacks it runs, however deeply nested, are computed  *)
(* by recursive operators over a record `w' holding the whole heap.        *)
(***************************************************************************)
EXTENDS Integers, Sequences, FiniteSets, TLC

\* ---------------------------------------------------------------- bounds
MaxVal == 2
MaxCalls == 3
MaxTxDepth == 2

\* ------------------------------------------------------------- Delta enum
Insert == 1
Retract == -1

Vals == 1..MaxVal
Deltas == {Insert, Retract}
SubIds == {1, 2}

\* ------------------------------------------------------ the dataflow graph
\* Inputs a and b, and one inner Input per upstream item for flatMap.
InnerNames == <<"in1", "in2", "in3", "in4">>
Inputs == {"a", "b"} \cup {InnerNames[v] : v \in Vals}

\* The derived collections built over them:
\*   fm = a.flatMap(flatMapFn)   jn = a.join(b, keyA, keyB)
\*   rd = a.reduce(seed, reduceFn)   wl = a.withLatest(b)
\*   mp = a.map(mapFn)   fl = a.filter(predicate)   cc = concat(a, b)
\*   fb = a.filterBy(b, predicateBy)
\* Chains of two operators:  mf = mp.filter(predicate)
\*   jf = jn.flatMap(([x, y]) => inner Input of x)
\*   wf = wl.flatMap(([x, l]) => inner Input of x)
\* These are built before the program is driven.  The collections of a
\* Context, and the flatMap built while contexts may be registered, are made
\* while it runs (see NewCollection).
Node == [fm |-> [kind |-> "flatMap", up |-> "a", other |-> ""],
         jn |-> [kind |-> "join", up |-> "a", other |-> "b"],
         rd |-> [kind |-> "reduce", up |-> "a", other |-> ""],
         wl |-> [kind |-> "withLatest", up |-> "a", other |-> "b"],
         mp |-> [kind |-> "map", up |-> "a", other |-> ""],
         fl |-> [kind |-> "filter", up |-> "a", other |-> ""],
         cc |-> [kind |-> "concat", up |-> "a", other |-> "b"],
         fb |-> [kind |-> "filterBy", up |-> "a", other |-> "b"],
         mf |-> [kind |-> "filter", up |-> "mp", other |-> ""],
         jf |-> [kind |-> "flatMap", up |-> "jn", other |-> ""],
         wf |-> [kind |-> "flatMap", up |-> "wl", other |-> ""]]
Derived == DOMAIN Node
Colls == Inputs \cup Derived

\* The functions handed to the operators.
flatMapFn(item) == InnerNames[item]
InnerVals(item) == {10 * item, 10 * item + 1}
keyA(a) == a % 2
keyB(b) == 1
seed == 0
mapFn(x) == x * 2
predicate(x) == x % 2 = 0
predicateBy(item, ctx) == item > ctx
reduceFn(state, item, delta) == state + (IF delta = Insert THEN item ELSE 0 - item)

\* ------------------------------------------------------------ JS Set<T>
\* A JS Set iterates in insertion order; add() of a present value keeps its
\* place, delete() removes it.
Has(seq, v) == \E k \in DOMAIN seq : seq[k] = v
SetAdd(seq, v) == IF Has(seq, v) THEN seq ELSE Append(seq, v)
SetDelete(seq, v) == SelectSeq(seq, LAMBDA x : x # v)

\* A Set that a loop iterates while callbacks change it (currentItems) is
\* kept as the list of its entries in the order they were added, as the
\* language defines it: delete() and clear() leave the entry in the list,
\* emptied; add() of an absent value appends an entry; the iterator goes
\* through the list by position, skips the emptied entries and ends when it
\* is past the last one.  So an entry added during the loop is reached, one
\* deleted before the loop reaches it is not, and a value deleted and added
\* again is reached again.
LiveHas(list, v) == \E k \in DOMAIN list : list[k].live /\ list[k].v = v
LiveAdd(list, v) == IF LiveHas(list, v) THEN list ELSE Append(list, [v |-> v, live |-> TRUE])
LiveDelete(list, v) ==
  [k \in DOMAIN list |-> IF list[k].live /\ list[k].v = v THEN [list[k] EXCEPT !.live = FALSE]
                         ELSE list[k]]
LiveClear(list) == [k \in DOMAIN list |-> [list[k] EXCEPT !.live = FALSE]]
\* [...set]: the values the Set holds, in insertion order
Spread(list) ==
  LET held == SelectSeq(list, LAMBDA e : e.live)
  IN [k \in DOMAIN held |-> held[k].v]

\* Array.indexOf + splice(idx, 1): remove the first occurrence, if any.
RECURSIVE RemoveFirst(_, _)
RemoveFirst(seq, v) ==
  IF seq = <<>> THEN <<>>
  ELSE IF Head(seq) = v THEN Tail(seq)
  ELSE <<Head(seq)>> \o RemoveFirst(Tail(seq), v)

\* ---------------------------------------------------------- JS Map<K, V>
\* Entries [k, v] in insertion order; set() of a present key keeps its place.
MapHas(m, k) == \E i \in DOMAIN m : m[i].k = k
MapGet(m, k) == m[CHOOSE i \in DOMAIN m : m[i].k = k].v
MapGetOr(m, k, default) == IF MapHas(m, k) THEN MapGet(m, k) ELSE default
MapSet(m, k, v) ==
  IF MapHas(m, k) THEN [i \in DOMAIN m |-> IF m[i].k = k THEN [k |-> k, v |-> v] ELSE m[i]]
  ELSE Append(m, [k |-> k, v |-> v])
MapDelete(m, k) == SelectSeq(m, LAMBDA e : e.k # k)

\* ------------------------------------------------------------- variables
VARIABLES
  values,        \* Input.values : Set<T>, per Input
  data,          \* Collection.data : T[], per collection
  subscribers,   \* Collection.subscribers : Set<Subscriber>, per collection
  batching,      \* tx.ts: let batching
  pendingEmits,  \* tx.ts: const pendingEmits
  txDepth,       \* number of tx(fn) frames on the call stack
  ops,           \* the private fields of each derived collection
  arrays,        \* the trackedValues arrays flatMap allocates, by closure id
  nextId,        \* the next closure id
  unsubOf,       \* the unsubscribe function each test callback holds
  closures,      \* ghost: the closures the operators created, in creation order
  received,      \* what each test callback has been called with
  subAt,         \* the collections each test callback is subscribed to
  reaction,      \* what a test callback does when it is called (re-entrant mutation)
  callLog,       \* ghost: the Input.emit calls, in call order
  txStart,       \* ghost: Len(callLog) when the outermost tx began
  txNested,      \* ghost: a tx began inside the current outermost tx
  txCount,       \* ghost: emissions queued when the last outermost tx reached its finally
  txExit,        \* ghost: how the last tx(fn) call ended: "none", "return" or "throw"
  trace          \* ghost: every callback call and operator-function call, in order

vars == <<values, data, subscribers, batching, pendingEmits, txDepth,
          ops, arrays, nextId, unsubOf, closures, received, subAt, reaction, callLog, txStart, txNested, txCount,
          txExit, trace>>

\* The heap as one record, threaded through the operators below.
Cur == [values |-> values, data |-> data, subscribers |-> subscribers,
        batching |-> batching, pendingEmits |-> pendingEmits,
        ops |-> ops, arrays |-> arrays, nextId |-> nextId, closures |-> closures,
        received |-> received, reaction |-> reaction, callLog |-> callLog,
        trace |-> trace]

Store(w) ==
  /\ values' = w.values
  /\ data' = w.data
  /\ subscribers' = w.subscribers
  /\ batching' = w.batching
  /\ pendingEmits' = w.pendingEmits
  /\ ops' = w.ops
  /\ arrays' = w.arrays
  /\ nextId' = w.nextId
  /\ closures' = w.closures
  /\ received' = w.received
  /\ reaction' = w.reaction
  /\ callLog' = w.callLog
  /\ trace' = w.trace

\* The class of collection c and the collections its constructor was given:
\* the fields of Node for the collections built beforehand, the fields the
\* constructor has stored for those made while the program runs.
KindOf(w, c) ==
  IF c \in Inputs THEN "input"
  ELSE IF c \in Derived THEN Node[c].kind ELSE w.ops[c].kind
UpOf(w, c) == IF c \in Derived THEN Node[c].up ELSE w.ops[c].up
OtherOf(w, c) == IF c \in Derived THEN Node[c].other ELSE w.ops[c].other

\* A test callback: logs every call; a reactive one also mutates an Input,
\* once, when it is called with the change it waits for.
NoReaction == [active |-> FALSE, onV |-> 0, onD |-> 0, c |-> "a", op |-> "none", v |-> 0]
Reactions ==
  [active : {TRUE}, onV : Vals, onD : Deltas, c : {"a"}, op : {"insert", "retract"}, v : Vals]

LogCb(s) == [id |-> s, kind |-> "log", node |-> ""]

\* A call of a function handed to an operator or method, by closure id
\* (0 for a call made by an Input method).
CallFn(w, id, f, arg) ==
  [w EXCEPT !.trace = Append(@, [id |-> id, f |-> f, v |-> arg, d |-> 0])]

\* undefined: a missing value (no value is 0)
undefined == 0

\* ------------------------------------------------------------ exceptions
\* The value on which the functions given to map, filter, join and reduce
\* throw; no Input method is called with it except where a specification
\* says so.
Bad == MaxVal + 1

\* throw: recorded as the last entry of the trace; the exception is in flight
\* until the caller of the Input method catches it.
Raise(w, arg) ==
  [w EXCEPT !.trace = Append(@, [id |-> 0, f |-> "throw", v |-> arg, d |-> 0])]
Raised(w) == w.trace # <<>> /\ w.trace[Len(w.trace)].f = "throw"

\* the function of node c throws on this argument: the functions given to
\* the collections built beforehand do, those the library gives to the
\* collections it makes itself (the context records) never throw
ThrowsAt(c, arg) == c \in Derived /\ arg = Bad

RECURSIVE RunEmit(_, _, _, _, _, _)
RECURSIVE CallSubscriber(_, _, _, _, _)
RECURSIVE SubscribeTo(_, _, _)

\* scheduleEmit without the batching test: every emission runs at once.
scheduleEmitNow(w, c, item, delta, n) == RunEmit(w, c, item, delta, n, {})

\* tx.ts scheduleEmit: queue while batching, else run now.
\* The closure is (collection, item, delta); n is its index in callLog.
scheduleEmit(w, c, item, delta, n) ==
  IF w.batching
    THEN [w EXCEPT !.pendingEmits = Append(@, [c |-> c, v |-> item, d |-> delta, n |-> n])]
    ELSE RunEmit(w, c, item, delta, n, {})

\* Input.emit
InputEmit(w, c, item, delta) ==
  LET w1 == [w EXCEPT !.callLog = Append(@, [c |-> c, v |-> item, d |-> delta])]
  IN scheduleEmit(w1, c, item, delta, Len(w1.callLog))

\* for (const fn of this.subscribers) fn(item, delta): the body of
\* Collection.emit and of the closure Input.emit schedules.  The Set is
\* iterated live: `visited' are the callbacks already called.  (A callback
\* function is never added to a Set again after it was deleted: every
\* subscribe of an operator makes new closures, and a test callback
\* subscribes once.)  A callback that throws ends the loop: CallSubscriber
\* calls nothing while an exception is in flight.
RunEmit(w, c, item, delta, n, visited) ==
  LET rest == SelectSeq(w.subscribers[c], LAMBDA cb : cb.id \notin visited)
  IN IF rest = <<>> THEN w
     ELSE RunEmit(CallSubscriber(w, Head(rest), item, delta, n),
                  c, item, delta, n, visited \cup {Head(rest).id})

\* Collection.emit (derived collections emit without the scheduler)
CollectionEmit(w, c, item, delta, n) == RunEmit(w, c, item, delta, n, {})

\* for (const v of values) this.emit(v, delta), values being the trackedValues
\* array of inner closure k, from position i on.  The loop reads the array
\* again at every step, so it sees what a callback pushes or splices
\* meanwhile.  A throw ends it.
RECURSIVE EmitEach(_, _, _, _, _, _)
EmitEach(w, c, k, i, delta, n) ==
  IF i > Len(w.arrays[k]) \/ Raised(w) THEN w
  ELSE EmitEach(CollectionEmit(w, c, w.arrays[k][i], delta, n), c, k, i + 1, delta, n)

\* Input.insert keeping the values in an array instead of a Set.
InputInsertIntoArray(w, c, value) ==
  LET w1 == [w EXCEPT !.values[c] = Append(@, value)]
      w2 == [w1 EXCEPT !.data[c] = w1.values[c]]
  IN InputEmit(w2, c, value, Insert)

\* Input.insert
InputInsert(w, c, value) ==
  LET w1 == [w EXCEPT !.values[c] = SetAdd(@, value)]
      w2 == [w1 EXCEPT !.data[c] = w1.values[c]]
  IN InputEmit(w2, c, value, Insert)

\* Input.retract without the refresh of this.data.
InputRetractStaleData(w, c, value) ==
  InputEmit([w EXCEPT !.values[c] = SetDelete(@, value)], c, value, Retract)

\* Input.retract leaving the value in place and only emitting.
InputRetractKeepsValue(w, c, value) == InputEmit(w, c, value, Retract)

\* Input.retract
InputRetract(w, c, value) ==
  LET w1 == [w EXCEPT !.values[c] = SetDelete(@, value)]
      w2 == [w1 EXCEPT !.data[c] = w1.values[c]]
  IN InputEmit(w2, c, value, Retract)

\* Input.set: for (const v of this.values) this.retract(v); this.insert(value).
\* Every visited value is deleted at once, so the iterator always stands at
\* the first value still held.  A retract that throws ends the loop.
RECURSIVE RetractAll(_, _)
RetractAll(w, c) ==
  IF w.values[c] = <<>> \/ Raised(w) THEN w
  ELSE RetractAll(InputRetract(w, c, Head(w.values[c])), c)

\* Input.set retracting the held values in reverse order.
RECURSIVE RetractAllReversed(_, _)
RetractAllReversed(w, c) ==
  IF w.values[c] = <<>> THEN w
  ELSE RetractAllReversed(InputRetract(w, c, w.values[c][Len(w.values[c])]), c)

InputSetReversed(w, c, value) == InputInsert(RetractAllReversed(w, c), c, value)

InputSet(w, c, value) ==
  LET Then(w1) == IF Raised(w1) THEN w1 ELSE InputInsert(w1, c, value)
  IN Then(RetractAll(w, c))

\* The functions handed to update().
Fns == {"succ", "first"}
ApplyFn(f, x) == IF f = "succ" THEN (x % MaxVal) + 1 ELSE 1

\* Input.update inserting the new value before retracting the current one.
InputUpdateInsertsFirst(w, c, f) ==
  IF w.values[c] = <<>> THEN w
  ELSE LET current == Head(w.values[c])
           newValue == ApplyFn(f, current)
       IN InputRetract(InputInsert(CallFn(w, 0, f, current), c, newValue), c, current)

\* Input.update
InputUpdate(w, c, f) ==
  IF w.values[c] = <<>> THEN w
  ELSE LET current == Head(w.values[c])
           newValue == ApplyFn(f, current)
           Then(w1) == IF Raised(w1) THEN w1 ELSE InputInsert(w1, c, newValue)
       IN Then(InputRetract(CallFn(w, 0, f, current), c, current))

\* Input.replace
InputReplace(w, c, oldValue, newValue) ==
  LET Then(w1) == IF Raised(w1) THEN w1 ELSE InputInsert(w1, c, newValue)
  IN Then(InputRetract(w, c, oldValue))

\* Input.getAll
getAll(c) == values[c]

\* Input.find(predicate), the predicate given as the set of the values it
\* accepts: the first held value it accepts, or undefined
FirstIn(seq, accepted) ==
  LET hits == SelectSeq(seq, LAMBDA x : x \in accepted)
  IN IF hits = <<>> THEN 0 ELSE Head(hits)
find(c, accepted) == FirstIn(values[c], accepted)

\* Collection.subscribe: add fn, then replay this.data as Inserts.
RECURSIVE Replay(_, _, _)
Replay(w, cb, items) ==
  IF items = <<>> THEN w
  ELSE Replay(CallSubscriber(w, cb, Head(items), Insert, 0), cb, Tail(items))

CollectionSubscribe(w, c, cb) ==
  LET w1 == [w EXCEPT !.subscribers[c] = SetAdd(@, cb)]
  IN Replay(w1, cb, w1.data[c])

\* ------------------------------------------------ unsubscribe closures
\* An unsubscribe function is the list of the steps it performs:
\*   del     this.subscribers.delete(fn) on collection c, fn the closure id
\*   fmClear innerUnsubs.forEach(u => u()); innerUnsubs.clear(); innerValues.clear()
\*   wlClear currentItems.clear(); emittedTuples.clear()
Del(c, id) == [op |-> "del", c |-> c, id |-> id]
FmClear(c) == [op |-> "fmClear", c |-> c, id |-> 0]
WlClear(c) == [op |-> "wlClear", c |-> c, id |-> 0]
\*   fcClear the same as fmClear, then currentItems.clear()
\*   noop    the unsubscribe of a collection nothing else refers to
FcClear(c) == [op |-> "fcClear", c |-> c, id |-> 0]
Noop == [op |-> "noop", c |-> "", id |-> 0]

RECURSIVE RunUnsub(_, _)
RECURSIVE RunAll(_, _)
RunUnsub(w, un) ==
  IF un = <<>> THEN w
  ELSE LET o == Head(un)
           w1 == CASE o.op = "del" ->
                        [w EXCEPT !.subscribers[o.c] = SelectSeq(@, LAMBDA cb : cb.id # o.id)]
                   [] o.op = "fmClear" ->
                        [RunAll(w, w.ops[o.c].innerUnsubs)
                           EXCEPT !.ops[o.c].innerUnsubs = <<>>, !.ops[o.c].innerValues = <<>>]
                   [] o.op = "wlClear" ->
                        [w EXCEPT !.ops[o.c].currentItems = LiveClear(@),
                                  !.ops[o.c].emittedTuples = <<>>,
                                  !.ops[o.c].tupleOids = <<>>]
                   [] o.op = "fcClear" ->
                        [RunAll(w, w.ops[o.c].innerUnsubs)
                           EXCEPT !.ops[o.c].innerUnsubs = <<>>, !.ops[o.c].innerValues = <<>>,
                                  !.ops[o.c].currentItems = LiveClear(@)]
                   [] o.op = "noop" -> w
       IN RunUnsub(w1, Tail(un))

\* innerUnsubs.forEach(u => u())
RunAll(w, entries) ==
  IF entries = <<>> THEN w
  ELSE RunAll(RunUnsub(w, Head(entries).v), Tail(entries))

\* A new closure: it takes the next id and gets an empty call log.
Closure(w, kind, node) == [id |-> w.nextId, kind |-> kind, node |-> node]
NewClosure(w, kind, node) ==
  [w EXCEPT !.nextId = @ + 1, !.received = (w.nextId :> <<>>) @@ @,
            !.closures = Append(@, Closure(w, kind, node))]

\* ------------------------------------------------------- MappedCollection
\* MapOnUpstream emitting every change as an Insert.
MapOnUpstreamAsInsert(w, cb, item, delta, n) ==
  LET mapped == mapFn(item)
  IN CollectionEmit(CallFn(w, cb.id, "mapFn", item), cb.node, mapped, Insert, n)

\* A context record is an object with the keys a and b: each call of a
\* function that builds one makes a new object, told apart by oid; a missing
\* key reads undefined (no Input holds undefined).
\*   {}                      NoContext
\*   {[key]: val}            KeyRecord
\*   {...ctx, [key]: val}    WithKey
\*   {...a, ...b}            Merged: the keys of b win
NoContext == [a |-> undefined, b |-> undefined, oid |-> 0]
KeyRecord(key, val, oid) == [NoContext EXCEPT ![key] = val, !.oid = oid]
WithKey(ctx, key, val, oid) == [ctx EXCEPT ![key] = val, !.oid = oid]
Merged(x, y, oid) ==
  [a |-> IF y.a # undefined THEN y.a ELSE x.a,
   b |-> IF y.b # undefined THEN y.b ELSE x.b,
   oid |-> oid]

\* this.mapFn(item) of map node c: mapFn for the map nodes built beforehand;
\* for a map node the library made, the function its constructor was given
\* (context.ts 65-67 and 72-74, collection.ts 228).
mapFnOf(w, c, item) ==
  IF c \in Derived THEN mapFn(item)
  ELSE LET f == w.ops[c].mapFn
           oid == Len(w.trace) + 1
       IN CASE f.f = "key" -> KeyRecord(f.key, item, oid)
            [] f.f = "with" -> WithKey(item[1], f.key, item[2], oid)
            [] f.f = "merge" -> Merged(item[1], item[2], oid)

\* MapOnUpstream catching what the map function throws.
MapOnUpstreamCatches(w, cb, item, delta, n) ==
  LET mapped == mapFnOf(w, cb.node, item)
  IN IF ThrowsAt(cb.node, item) THEN CallFn(w, cb.id, "mapFn", item)
     ELSE CollectionEmit(CallFn(w, cb.id, "mapFn", item), cb.node, mapped, delta, n)

\* the callback given to upstream.subscribe
MapOnUpstream(w, cb, item, delta, n) ==
  LET mapped == mapFnOf(w, cb.node, item)
  IN IF ThrowsAt(cb.node, item) THEN Raise(CallFn(w, cb.id, "mapFn", item), item)
     ELSE CollectionEmit(CallFn(w, cb.id, "mapFn", item), cb.node, mapped, delta, n)

\* MappedCollection.subscribe
MapSubscribe(w, c, cb) ==
  LET w1 == [w EXCEPT !.subscribers[c] = SetAdd(@, cb)]
      Returned(r) == [w |-> r.w, un |-> <<Del(c, cb.id)>> \o r.un]
  IN Returned(SubscribeTo(NewClosure(w1, "mp", c), UpOf(w, c), Closure(w1, "mp", c)))

\* ----------------------------------------------------- FilteredCollection
\* FilterOnUpstream testing the predicate on Inserts only.
FilterOnUpstreamInsertsOnly(w, cb, item, delta, n) ==
  IF predicate(item) \/ delta = Retract THEN CollectionEmit(w, cb.node, item, delta, n) ELSE w

\* the callback given to upstream.subscribe
FilterOnUpstream(w, cb, item, delta, n) ==
  IF ThrowsAt(cb.node, item) THEN Raise(w, item)
  ELSE IF predicate(item) THEN CollectionEmit(w, cb.node, item, delta, n) ELSE w

\* FilteredCollection.subscribe
FilterSubscribe(w, c, cb) ==
  LET w1 == [w EXCEPT !.subscribers[c] = SetAdd(@, cb)]
      Returned(r) == [w |-> r.w, un |-> <<Del(c, cb.id)>> \o r.un]
  IN Returned(SubscribeTo(NewClosure(w1, "fl", c), UpOf(w, c), Closure(w1, "fl", c)))

\* ------------------------------------------------------- ConcatCollection
\* The sources in the opposite order.
sourcesReversed(c) == <<Node[c].other, Node[c].up>>

\* this.sources, in argument order
sources(c) == <<Node[c].up, Node[c].other>>

\* the callback given to source.subscribe
ConcatOnSource(w, cb, item, delta, n) == CollectionEmit(w, cb.node, item, delta, n)

\* this.sources.map(source => source.subscribe(...)): one closure per source
RECURSIVE ConcatSubscribeEach(_, _, _)
ConcatSubscribeEach(w, c, srcs) ==
  IF srcs = <<>> THEN [w |-> w, un |-> <<>>]
  ELSE LET Returned(r, rest) == [w |-> rest.w, un |-> r.un \o rest.un]
           Rest(r) == Returned(r, IF Raised(r.w) THEN [w |-> r.w, un |-> <<>>]
                                  ELSE ConcatSubscribeEach(r.w, c, Tail(srcs)))
       IN Rest(SubscribeTo(NewClosure(w, "cc", c), Head(srcs), Closure(w, "cc", c)))

\* ConcatCollection.subscribe
ConcatSubscribe(w, c, cb) ==
  LET w1 == [w EXCEPT !.subscribers[c] = SetAdd(@, cb)]
      Returned(r) == [w |-> r.w, un |-> <<Del(c, cb.id)>> \o r.un]
  IN Returned(ConcatSubscribeEach(w1, c, sources(c)))

\* ----------------------------------------------------- FilterByCollection

\* FilterByOnContext forgetting the context value on a Retract.
FilterByOnContextClearsOnRetract(w, cb, item, delta, n) ==
  IF delta = Insert THEN [w EXCEPT !.ops[cb.node].latestContext = item]
  ELSE [w EXCEPT !.ops[cb.node].latestContext = undefined]

\* the callback given to context.subscribe
FilterByOnContext(w, cb, item, delta, n) ==
  IF delta = Insert THEN [w EXCEPT !.ops[cb.node].latestContext = item] ELSE w

\* the callback given to upstream.subscribe
FilterByOnUpstream(w, cb, item, delta, n) ==
  IF w.ops[cb.node].latestContext # undefined
     /\ predicateBy(item, w.ops[cb.node].latestContext)
    THEN CollectionEmit(w, cb.node, item, delta, n)
    ELSE w

\* FilterByCollection.subscribe: context first, then upstream
FilterBySubscribe(w, c, cb) ==
  LET w1 == [w EXCEPT !.subscribers[c] = SetAdd(@, cb)]
      Returned(rc, ru) == [w |-> ru.w, un |-> <<Del(c, cb.id)>> \o ru.un \o rc.un]
      Upstream(rc) ==
        Returned(rc, IF Raised(rc.w) THEN [w |-> rc.w, un |-> <<>>]
                     ELSE SubscribeTo(NewClosure(rc.w, "fbUp", c), UpOf(w, c),
                                      Closure(rc.w, "fbUp", c)))
  IN Upstream(SubscribeTo(NewClosure(w1, "fbCtx", c), OtherOf(w, c), Closure(w1, "fbCtx", c)))

\* ------------------------------------------------------ FlatMapCollection
\* FlatMapOnInner forwarding Inserts only.
FlatMapOnInnerDropsRetract(w, cb, innerItem, innerDelta, n) ==
  IF innerDelta = Insert
    THEN CollectionEmit([w EXCEPT !.arrays[cb.id] = Append(@, innerItem)],
                        cb.node, innerItem, innerDelta, n)
    ELSE [w EXCEPT !.arrays[cb.id] = RemoveFirst(@, innerItem)]

\* the callback given to inner.subscribe; its trackedValues array is arrays[cb.id]
FlatMapOnInner(w, cb, innerItem, innerDelta, n) ==
  LET w1 == IF innerDelta = Insert
              THEN [w EXCEPT !.arrays[cb.id] = Append(@, innerItem)]
              ELSE [w EXCEPT !.arrays[cb.id] = RemoveFirst(@, innerItem)]
  IN CollectionEmit(w1, cb.node, innerItem, innerDelta, n)

\* The function the program gives to items.flatMap, the flatMap it makes
\* while it runs: item => new Input([item, ctx.b]), ctx being the first
\* Context it made (the key reads undefined while there is none).  It
\* returns a new Input on each call, which nothing else refers to; this is
\* the data of that Input.
flatMapFnCtx(w, item) ==
  LET made == w.ops["reg"].contexts
  IN <<<<item, IF made = <<>> THEN undefined ELSE w.ops[made[1].context].current.b>>>>

\* this.flatMapFn(item) of flatMap node c: over an Input the function takes
\* the item, over a join or withLatest the first member of the pair
flatMapFnOf(w, c, item) ==
  IF KindOf(w, UpOf(w, c)) \in {"join", "withLatest"} THEN flatMapFn(item[1])
  ELSE flatMapFn(item)

\* inner.subscribe(fn) with inner = this.flatMapFn(item): an Input of the
\* graph for the flatMap nodes built beforehand, a new Input for the flatMap
\* the program makes while it runs
SubscribeInner(w, c, item, cb) ==
  IF c \in Derived THEN SubscribeTo(w, flatMapFnOf(w, c, item), cb)
  ELSE [w |-> Replay(w, cb, flatMapFnCtx(w, item)), un |-> <<Noop>>]

\* The key of item in the Maps innerUnsubs and innerValues.  A Map compares
\* keys by identity: a number is its own key, an array is the object its
\* upstream is emitting.  A join makes a new array for every emit;
\* withLatest emits stored objects.
MapKey(w, c, item) ==
  IF KindOf(w, UpOf(w, c)) \in {"join", "withLatest"}
    THEN <<item, w.ops[UpOf(w, c)].emitting>>
    ELSE item

\* the callback given to upstream.subscribe.  A statement that follows a
\* call that threw is not run: innerUnsubs.set after inner.subscribe,
\* innerValues.delete after the loop of emits.
FlatMapOnUpstream(w, cb, item, delta, n) ==
  LET c == cb.node
      key == MapKey(w, c, item)
  IN IF delta = Insert
       THEN LET k == w.nextId
                w1 == [NewClosure(CallFn(w, cb.id, "flatMapFn", item), "fmInner", c)
                         EXCEPT !.arrays = (k :> <<>>) @@ @,
                                !.ops[c].innerValues = MapSet(@, key, k)]
                Subscribed(r) ==
                  IF Raised(r.w) THEN r.w
                  ELSE [r.w EXCEPT !.ops[c].innerUnsubs = MapSet(@, key, r.un)]
            IN Subscribed(SubscribeInner(w1, c, item, Closure(w, "fmInner", c)))
       ELSE LET Emitted(w2) ==
                  IF Raised(w2) THEN w2
                  ELSE [w2 EXCEPT !.ops[c].innerValues = MapDelete(@, key)]
                Unsubscribed(w1) ==
                  IF MapHas(w1.ops[c].innerValues, key)
                    THEN Emitted(EmitEach(w1, c, MapGet(w1.ops[c].innerValues, key),
                                          1, Retract, n))
                    ELSE w1
            IN Unsubscribed(IF MapHas(w.ops[c].innerUnsubs, key)
                              THEN [RunUnsub(w, MapGet(w.ops[c].innerUnsubs, key))
                                      EXCEPT !.ops[c].innerUnsubs = MapDelete(@, key)]
                              ELSE w)

\* FlatMapCollection.subscribe
FlatMapSubscribe(w, c, cb) ==
  LET w1 == [w EXCEPT !.subscribers[c] = SetAdd(@, cb)]
      Returned(r) == [w |-> r.w, un |-> <<Del(c, cb.id)>> \o r.un \o <<FmClear(c)>>]
  IN Returned(SubscribeTo(NewClosure(w1, "fmUp", c), UpOf(w, c), Closure(w1, "fmUp", c)))

\* --------------------------------------------------- WithLatestCollection
\* A tuple [t, l] is an array object: a new one has a new identity (oid), and
\* emit hands the object itself to the subscribers.
NewOid(w) == Len(w.trace) + 1

\* this.emit(tuple, delta) of a collection of tuples: the loop of
\* Collection.emit, every callback being handed the one object.  The field
\* emitting holds the identity of the object a callback is being called with;
\* it is set before each call, as a callback can make the collection emit
\* another tuple before the loop goes on.
RECURSIVE RunEmitTuple(_, _, _, _, _, _, _)
RunEmitTuple(w, c, tuple, oid, delta, n, visited) ==
  LET rest == SelectSeq(w.subscribers[c], LAMBDA cb : cb.id \notin visited)
  IN IF rest = <<>> THEN w
     ELSE RunEmitTuple(CallSubscriber([w EXCEPT !.ops[c].emitting = oid],
                                      Head(rest), tuple, delta, n),
                       c, tuple, oid, delta, n, visited \cup {Head(rest).id})

EmitTuple(w, c, tuple, oid, delta, n) == RunEmitTuple(w, c, tuple, oid, delta, n, {})

\* for (const t of currentItems) { oldTuple = emittedTuples.get(t); if (oldTuple) emit(oldTuple, Retract) }
\* from entry i of the Set on.  A throw ends the loop.
RECURSIVE WithLatestRetractOld(_, _, _, _)
WithLatestRetractOld(w, c, i, n) ==
  LET list == w.ops[c].currentItems
  IN IF i > Len(list) \/ Raised(w) THEN w
     ELSE IF ~list[i].live THEN WithLatestRetractOld(w, c, i + 1, n)
     ELSE LET t == list[i].v
              w1 == IF MapHas(w.ops[c].emittedTuples, t)
                      THEN EmitTuple(w, c, MapGet(w.ops[c].emittedTuples, t),
                                     MapGet(w.ops[c].tupleOids, t), Retract, n)
                      ELSE w
          IN WithLatestRetractOld(w1, c, i + 1, n)

\* for (const t of currentItems) { newTuple = [t, item]; emittedTuples.set(t, newTuple); emit(newTuple, Insert) }
\* from entry i of the Set on.  A throw ends the loop.
RECURSIVE WithLatestInsertNew(_, _, _, _, _)
WithLatestInsertNew(w, c, i, item, n) ==
  LET list == w.ops[c].currentItems
  IN IF i > Len(list) \/ Raised(w) THEN w
     ELSE IF ~list[i].live THEN WithLatestInsertNew(w, c, i + 1, item, n)
     ELSE LET t == list[i].v
              newTuple == <<t, item>>
              w1 == [w EXCEPT !.ops[c].emittedTuples = MapSet(@, t, newTuple),
                              !.ops[c].tupleOids = MapSet(@, t, NewOid(w))]
          IN WithLatestInsertNew(EmitTuple(w1, c, newTuple, NewOid(w), Insert, n),
                                 c, i + 1, item, n)

\* WithLatestOnOther retracting and re-inserting item by item.
RECURSIVE WithLatestReplaceEach(_, _, _, _, _)
WithLatestReplaceEach(w, c, items, item, n) ==
  IF items = <<>> THEN w
  ELSE LET t == Head(items)
           w1 == IF MapHas(w.ops[c].emittedTuples, t)
                   THEN EmitTuple(w, c, MapGet(w.ops[c].emittedTuples, t),
                                  MapGet(w.ops[c].tupleOids, t), Retract, n)
                   ELSE w
           w2 == [w1 EXCEPT !.ops[c].emittedTuples = MapSet(@, t, <<t, item>>),
                            !.ops[c].tupleOids = MapSet(@, t, NewOid(w1))]
       IN WithLatestReplaceEach(EmitTuple(w2, c, <<t, item>>, NewOid(w1), Insert, n),
                                c, Tail(items), item, n)

WithLatestOnOtherInterleaved(w, cb, item, delta, n) ==
  LET c == cb.node
  IN IF delta = Insert
       THEN LET w1 == [w EXCEPT !.ops[c].latestOther = item, !.ops[c].hasLatest = TRUE]
            IN IF w.ops[c].hasLatest
                 THEN WithLatestReplaceEach(w1, c, Spread(w1.ops[c].currentItems), item, n)
                 ELSE WithLatestInsertNew(w1, c, 1, item, n)
       ELSE w

\* WithLatestOnOther without the retraction of the old tuples.
WithLatestOnOtherKeepsOld(w, cb, item, delta, n) ==
  LET c == cb.node
  IN IF delta = Insert
       THEN WithLatestInsertNew(
              [w EXCEPT !.ops[c].latestOther = item, !.ops[c].hasLatest = TRUE],
              c, 1, item, n)
       ELSE w

\* the callback given to other.subscribe
WithLatestOnOther(w, cb, item, delta, n) ==
  LET c == cb.node
  IN IF delta = Insert
       THEN LET hadLatest == w.ops[c].hasLatest
                w1 == [w EXCEPT !.ops[c].latestOther = item, !.ops[c].hasLatest = TRUE]
                Then(w2) == IF Raised(w2) THEN w2 ELSE WithLatestInsertNew(w2, c, 1, item, n)
            IN Then(IF hadLatest THEN WithLatestRetractOld(w1, c, 1, n) ELSE w1)
       ELSE w

\* The Insert branch of the callback given to upstream.subscribe.
WithLatestOnUpstreamInsert(w, c, item, n) ==
  LET w1 == [w EXCEPT !.ops[c].currentItems = LiveAdd(@, item)]
  IN IF w1.ops[c].hasLatest
       THEN LET tuple == <<item, w1.ops[c].latestOther>>
            IN EmitTuple([w1 EXCEPT !.ops[c].emittedTuples = MapSet(@, item, tuple),
                                    !.ops[c].tupleOids = MapSet(@, item, NewOid(w))],
                         c, tuple, NewOid(w), Insert, n)
       ELSE w1

\* emit(tuple, Retract); emittedTuples.delete(item): the delete is not
\* reached when the emit throws
WithLatestRetractStored(w, c, item, tuple, oid, n) ==
  LET Emitted(w1) ==
        IF Raised(w1) THEN w1
        ELSE [w1 EXCEPT !.ops[c].emittedTuples = MapDelete(@, item),
                        !.ops[c].tupleOids = MapDelete(@, item)]
  IN Emitted(EmitTuple(w, c, tuple, oid, Retract, n))

\* WithLatestOnUpstream ignoring Retracts until a latest value exists.
WithLatestOnUpstreamKeepsRetracted(w, cb, item, delta, n) ==
  LET c == cb.node
  IN IF delta = Insert THEN WithLatestOnUpstreamInsert(w, c, item, n)
     ELSE IF ~w.ops[c].hasLatest THEN w
     ELSE LET w1 == [w EXCEPT !.ops[c].currentItems = LiveDelete(@, item)]
          IN IF MapHas(w1.ops[c].emittedTuples, item)
               THEN WithLatestRetractStored(w1, c, item, MapGet(w1.ops[c].emittedTuples, item),
                                            MapGet(w1.ops[c].tupleOids, item), n)
               ELSE w1

\* WithLatestOnUpstream building a new array [item, latest] for the Retract.
WithLatestOnUpstreamFreshRetract(w, cb, item, delta, n) ==
  LET c == cb.node
  IN IF delta = Insert THEN WithLatestOnUpstreamInsert(w, c, item, n)
     ELSE LET w1 == [w EXCEPT !.ops[c].currentItems = LiveDelete(@, item)]
          IN IF w1.ops[c].hasLatest /\ MapHas(w1.ops[c].emittedTuples, item)
               THEN WithLatestRetractStored(w1, c, item, <<item, w1.ops[c].latestOther>>,
                                            NewOid(w), n)
               ELSE w1

\* the callback given to upstream.subscribe
WithLatestOnUpstream(w, cb, item, delta, n) ==
  LET c == cb.node
  IN IF delta = Insert THEN WithLatestOnUpstreamInsert(w, c, item, n)
     ELSE LET w1 == [w EXCEPT !.ops[c].currentItems = LiveDelete(@, item)]
          IN IF w1.ops[c].hasLatest /\ MapHas(w1.ops[c].emittedTuples, item)
               THEN WithLatestRetractStored(w1, c, item, MapGet(w1.ops[c].emittedTuples, item),
                                            MapGet(w1.ops[c].tupleOids, item), n)
               ELSE w1

\* WithLatestCollection.subscribe: other first, then upstream
WithLatestSubscribe(w, c, cb) ==
  LET w1 == [w EXCEPT !.subscribers[c] = SetAdd(@, cb)]
      Returned(ro, ru) ==
        [w |-> ru.w, un |-> <<Del(c, cb.id)>> \o ru.un \o ro.un \o <<WlClear(c)>>]
      Upstream(ro) ==
        Returned(ro, IF Raised(ro.w) THEN [w |-> ro.w, un |-> <<>>]
                     ELSE SubscribeTo(NewClosure(ro.w, "wlUp", c), UpOf(w, c),
                                      Closure(ro.w, "wlUp", c)))
  IN Upstream(SubscribeTo(NewClosure(w1, "wlOther", c), OtherOf(w, c), Closure(w1, "wlOther", c)))

\* --------------------------------------------------------- JoinCollection
\* for (const x of this.index.get(key) ?? []) this.emit([.., ..], delta),
\* from row i on: every emit is given a new array, and all subscribers of the
\* join get that one object.  The array of the index is iterated live: a row
\* pushed meanwhile is reached, a splice moves the rows after it.  A throw
\* ends the loop.
RECURSIVE EmitNewEach(_, _, _, _, _, _, _, _)
EmitNewEach(w, c, index, key, i, item, delta, n) ==
  LET rows == MapGetOr(w.ops[c][index], key, <<>>)
  IN IF i > Len(rows) \/ Raised(w) THEN w
     ELSE LET tuple == IF index = "indexB" THEN <<item, rows[i]>> ELSE <<rows[i], item>>
          IN EmitNewEach(EmitTuple(w, c, tuple, NewOid(w), delta, n),
                         c, index, key, i + 1, item, delta, n)

\* JoinOnA emitting nothing on a Retract.
JoinOnASilentRetract(w, cb, item, delta, n) ==
  LET c == cb.node
      key == keyA(item)
  IN IF delta = Insert
       THEN LET w1 == [w EXCEPT !.ops[c].indexA =
                         MapSet(@, key, Append(MapGetOr(@, key, <<>>), item))]
            IN EmitNewEach(w1, c, "indexB", key, 1, item, Insert, n)
       ELSE IF MapHas(w.ops[c].indexA, key)
              THEN [w EXCEPT !.ops[c].indexA = MapSet(@, key, RemoveFirst(MapGet(@, key), item))]
              ELSE w

\* the callback given to upstreamA.subscribe
JoinOnA(w, cb, item, delta, n) ==
  LET c == cb.node
      key == keyA(item)
  IN IF ThrowsAt(c, item) THEN Raise(w, item)
     ELSE IF delta = Insert
       THEN LET w1 == [w EXCEPT !.ops[c].indexA =
                         MapSet(@, key, Append(MapGetOr(@, key, <<>>), item))]
            IN EmitNewEach(w1, c, "indexB", key, 1, item, Insert, n)
       ELSE LET w1 == IF MapHas(w.ops[c].indexA, key)
                        THEN [w EXCEPT !.ops[c].indexA =
                                MapSet(@, key, RemoveFirst(MapGet(@, key), item))]
                        ELSE w
            IN EmitNewEach(w1, c, "indexB", key, 1, item, Retract, n)

\* the callback given to upstreamB.subscribe
JoinOnB(w, cb, item, delta, n) ==
  LET c == cb.node
      key == keyB(item)
  IN IF ThrowsAt(c, item) THEN Raise(w, item)
     ELSE IF delta = Insert
       THEN LET w1 == [w EXCEPT !.ops[c].indexB =
                         MapSet(@, key, Append(MapGetOr(@, key, <<>>), item))]
            IN EmitNewEach(w1, c, "indexA", key, 1, item, Insert, n)
       ELSE LET w1 == IF MapHas(w.ops[c].indexB, key)
                        THEN [w EXCEPT !.ops[c].indexB =
                                MapSet(@, key, RemoveFirst(MapGet(@, key), item))]
                        ELSE w
            IN EmitNewEach(w1, c, "indexA", key, 1, item, Retract, n)

\* JoinCollection.subscribe subscribing upstream for the first callback only.
JoinSubscribeShared(w, c, cb) ==
  LET w1 == [w EXCEPT !.subscribers[c] = SetAdd(@, cb)]
      ra == SubscribeTo(NewClosure(w1, "jnA", c), UpOf(w, c), Closure(w1, "jnA", c))
      rb == SubscribeTo(NewClosure(ra.w, "jnB", c), OtherOf(w, c), Closure(ra.w, "jnB", c))
  IN IF w.subscribers[c] # <<>> THEN [w |-> w1, un |-> <<Del(c, cb.id)>>]
     ELSE [w |-> rb.w, un |-> <<Del(c, cb.id)>> \o ra.un \o rb.un]

\* JoinCollection.subscribe: side A first, then side B
JoinSubscribe(w, c, cb) ==
  LET w1 == [w EXCEPT !.subscribers[c] = SetAdd(@, cb)]
      Returned(ra, rb) == [w |-> rb.w, un |-> <<Del(c, cb.id)>> \o ra.un \o rb.un]
      Other(ra) ==
        Returned(ra, IF Raised(ra.w) THEN [w |-> ra.w, un |-> <<>>]
                     ELSE SubscribeTo(NewClosure(ra.w, "jnB", c), OtherOf(w, c),
                                      Closure(ra.w, "jnB", c)))
  IN Other(SubscribeTo(NewClosure(w1, "jnA", c), UpOf(w, c), Closure(w1, "jnA", c)))

\* ------------------------------------------------------- ReduceCollection
\* ReduceOnUpstream storing the new state before the Retract is emitted.
ReduceOnUpstreamRetractsNew(w, cb, item, delta, n) ==
  LET c == cb.node
      newState == reduceFn(w.ops[c].state, item, delta)
      w1 == [w EXCEPT !.ops[c].state = newState]
      w2 == IF w.ops[c].hasEmitted THEN CollectionEmit(w1, c, newState, Retract, n) ELSE w1
      w3 == CollectionEmit(w2, c, newState, Insert, n)
  IN [w3 EXCEPT !.ops[c].hasEmitted = TRUE]

\* the callback given to upstream.subscribe.  A throw of reduceFn or of an
\* emit leaves the callback at once: what follows it (this.state = newState
\* after the Retract, this.hasEmitted = true after the Insert) is not run.
ReduceOnUpstream(w, cb, item, delta, n) ==
  LET c == cb.node
      oldState == w.ops[c].state
      newState == reduceFn(oldState, item, delta)
      Inserted(w3) == IF Raised(w3) THEN w3 ELSE [w3 EXCEPT !.ops[c].hasEmitted = TRUE]
      Retracted(w1) ==
        IF Raised(w1) THEN w1
        ELSE Inserted(CollectionEmit([w1 EXCEPT !.ops[c].state = newState],
                                     c, newState, Insert, n))
  IN IF ThrowsAt(c, item) THEN Raise(w, item)
     ELSE Retracted(IF w.ops[c].hasEmitted THEN CollectionEmit(w, c, oldState, Retract, n)
                    ELSE w)

\* ReduceCollection.subscribe: when fn(this.state, Insert) throws,
\* upstream.subscribe is not reached
ReduceSubscribe(w, c, cb) ==
  LET w1 == [w EXCEPT !.subscribers[c] = SetAdd(@, cb)]
      Returned(r) == [w |-> r.w, un |-> <<Del(c, cb.id)>> \o r.un]
      Upstream(w2) ==
        Returned(IF Raised(w2) THEN [w |-> w2, un |-> <<>>]
                 ELSE SubscribeTo(NewClosure(w2, "rd", c), UpOf(w, c), Closure(w2, "rd", c)))
  IN Upstream(IF w1.ops[c].hasEmitted
                THEN CallSubscriber(w1, cb, w1.ops[c].state, Insert, 0)
                ELSE w1)

\* ------------------------------------ collections made while running
\* The name of a new object: base, or base with a number once base is taken.
Fresh(w, base) ==
  IF base \notin DOMAIN w.ops THEN base
  ELSE base \o "_" \o ToString(Cardinality(DOMAIN w.ops))

\* The constructor of Collection, for a collection made while the program
\* runs: the fields of its class, no subscriber, the data it was given.
NewCollection(w, c, fields, initialData) ==
  [w EXCEPT !.ops = (c :> fields) @@ @,
            !.subscribers = (c :> <<>>) @@ @,
            !.data = (c :> initialData) @@ @]

\* The private fields of a WithLatestCollection and of the two flatMap
\* classes, as the field initialisers leave them.
WithLatestFields ==
  [latestOther |-> undefined, hasLatest |-> FALSE, currentItems |-> <<>>,
   emittedTuples |-> <<>>, tupleOids |-> <<>>, emitting |-> 0]
FlatMapFields == [innerUnsubs |-> <<>>, innerValues |-> <<>>]
FlatMapCtxFields ==
  [innerUnsubs |-> <<>>, innerValues |-> <<>>, currentItems |-> <<>>,
   latestContext |-> NoContext, hasContext |-> FALSE]

\* up.map(f): new MappedCollection(up, f)
CollectionMap(w, up, f, base) ==
  LET c == Fresh(w, base)
  IN [w |-> NewCollection(w, c, [kind |-> "map", up |-> up, other |-> "", mapFn |-> f], <<>>),
      c |-> c]

\* up.withLatest(other).map(f)
WithLatestThenMap(w, up, other, f, base, mapBase) ==
  LET c == Fresh(w, base)
      w1 == NewCollection(w, c, [kind |-> "withLatest", up |-> up, other |-> other]
                                   @@ WithLatestFields, <<>>)
  IN CollectionMap(w1, c, f, mapBase)

\* ------------------------------------------------------ ContextCollection
\* The constructor of ContextCollection, its loop over the keys from the
\* second on:  combined = combined.withLatest(inputs[key]).map(
\* ([ctx, val]) => ({...ctx, [key]: val})).  A key is the name of its Input.
RECURSIVE ChainKeys(_, _, _, _)
ChainKeys(w, combined, keys, i) ==
  IF i > Len(keys) THEN [w |-> w, c |-> combined]
  ELSE LET r == WithLatestThenMap(w, combined, keys[i], [f |-> "with", key |-> keys[i]],
                                  "k" \o ToString(2 * i - 2), "k" \o ToString(2 * i - 1))
       IN ChainKeys(r.w, r.c, keys, i + 1)

\* the callback the ContextCollection constructor gives to combined.subscribe
ContextOnCombined(w, cb, value, delta, n) ==
  IF delta = Insert THEN [w EXCEPT !.ops[cb.node].current = value] ELSE w

\* new ContextCollection(inputs), keys being Object.keys(inputs): it builds
\* combined (Collection.from([{}]) for no key, else a map of the first Input
\* chained with the others), sets current = {} and subscribes to combined.
NewContextCollection(w, keys) ==
  LET built ==
        IF keys = <<>>
          THEN LET c == Fresh(w, "k0")
               IN [w |-> NewCollection(CallFn(w, 0, "from", 0), c,
                                       [kind |-> "from", up |-> "", other |-> ""],
                                       <<[NoContext EXCEPT !.oid = NewOid(w)]>>),
                   c |-> c]
          ELSE LET first == CollectionMap(w, keys[1], [f |-> "key", key |-> keys[1]], "k1")
               IN ChainKeys(first.w, first.c, keys, 2)
      ctx == Fresh(built.w, "ctx")
      w1 == [built.w EXCEPT !.ops = (ctx :> [combined |-> built.c, current |-> NoContext]) @@ @]
      r == SubscribeTo(NewClosure(w1, "ctxCur", ctx), built.c, Closure(w1, "ctxCur", ctx))
  IN [w |-> r.w, context |-> ctx]

\* Context(inputs): new ContextCollection(inputs), registerContext of its
\* combined collection, disposed = false.  The registry is reg.registeredContexts;
\* reg.contexts are the Contexts the program holds, in the order it made them,
\* each with its ContextCollection and its flag.
NewContext(w, keys) ==
  LET r == NewContextCollection(w, keys)
  IN IF Raised(r.w) THEN r.w
     ELSE [r.w EXCEPT !.ops["reg"].registeredContexts = Append(@, r.w.ops[r.context].combined),
                      !.ops["reg"].contexts = Append(@, [context |-> r.context,
                                                         disposed |-> FALSE])]

\* dispose() of the i-th Context made: unregister, once
ContextDispose(w, i) ==
  LET x == w.ops["reg"].contexts[i]
  IN IF x.disposed THEN w
     ELSE [CallFn(w, 0, "unregister", 0)
             EXCEPT !.ops["reg"].contexts[i].disposed = TRUE,
                    !.ops["reg"].registeredContexts = RemoveFirst(@, w.ops[x.context].combined)]

\* context-registry.ts getRegisteredContexts
getRegisteredContexts(w) == w.ops["reg"].registeredContexts

\* The flatMap node of the program, items.flatMap(f) over Input a, is made
\* while the program runs; reg.built is the variable that holds it.
\* new FlatMapCollection(a, f)
NewFlatMap(w) ==
  LET c == Fresh(w, "fmp")
  IN [NewCollection(w, c, [kind |-> "flatMap", up |-> "a", other |-> ""] @@ FlatMapFields, <<>>)
        EXCEPT !.ops["reg"].built = c]

\* Collection.flatMap never looking at the registry.
CollectionFlatMapAlwaysPlain(w) == NewFlatMap(CallFn(w, 0, "getRegisteredContexts", 0))

\* The constructor of FlatMapWithContextCollection, its loop over the
\* contexts from the second on:
\* combined = combined.withLatest(contexts[i]).map(([a, b]) => ({...a, ...b}))
RECURSIVE CombineContexts(_, _, _, _)
CombineContexts(w, combined, contexts, i) ==
  IF i > Len(contexts) THEN [w |-> w, c |-> combined]
  ELSE LET r == WithLatestThenMap(w, combined, contexts[i], [f |-> "merge", key |-> ""],
                                  "kx", "kxm")
       IN CombineContexts(r.w, r.c, contexts, i + 1)

\* Collection.flatMap: the class of the node is chosen when flatMap is called
CollectionFlatMap(w) ==
  LET contexts == getRegisteredContexts(w)
      w1 == CallFn(w, 0, "getRegisteredContexts", 0)
  IN IF Len(contexts) > 0
       THEN LET r == CombineContexts(w1, contexts[1], contexts, 2)
                c == Fresh(r.w, "fmc")
            IN [NewCollection(r.w, c,
                              [kind |-> "flatMapCtx", up |-> "a", other |-> "",
                               combinedContext |-> r.c] @@ FlatMapCtxFields, <<>>)
                  EXCEPT !.ops["reg"].built = c]
       ELSE NewFlatMap(w1)

\* ------------------------------------------- FlatMapWithContextCollection
\* processItem; innerUnsubs.set is not reached when inner.subscribe throws
processItem(w, c, item, n) ==
  LET k == w.nextId
      w1 == [NewClosure(CallFn(w, 0, "flatMapFn", item), "fmInner", c)
               EXCEPT !.arrays = (k :> <<>>) @@ @,
                      !.ops[c].innerValues = MapSet(@, item, k)]
      Subscribed(r) ==
        IF Raised(r.w) THEN r.w
        ELSE [r.w EXCEPT !.ops[c].innerUnsubs = MapSet(@, item, r.un)]
  IN Subscribed(SubscribeInner(w1, c, item, Closure(w, "fmInner", c)))

\* cleanupItem; innerValues.delete is not reached when an emit throws
cleanupItem(w, c, item, n) ==
  LET Emitted(w2) ==
        IF Raised(w2) THEN w2 ELSE [w2 EXCEPT !.ops[c].innerValues = MapDelete(@, item)]
      Unsubscribed(w1) ==
        IF MapHas(w1.ops[c].innerValues, item)
          THEN Emitted(EmitEach(w1, c, MapGet(w1.ops[c].innerValues, item), 1, Retract, n))
          ELSE w1
  IN Unsubscribed(IF MapHas(w.ops[c].innerUnsubs, item)
                    THEN [RunUnsub(w, MapGet(w.ops[c].innerUnsubs, item))
                            EXCEPT !.ops[c].innerUnsubs = MapDelete(@, item)]
                    ELSE w)

\* for (const item of this.currentItems) this.cleanupItem(item), from entry i
\* of the Set on.  A throw ends the loop.
RECURSIVE cleanupEach(_, _, _, _)
cleanupEach(w, c, i, n) ==
  LET list == w.ops[c].currentItems
  IN IF i > Len(list) \/ Raised(w) THEN w
     ELSE IF ~list[i].live THEN cleanupEach(w, c, i + 1, n)
     ELSE cleanupEach(cleanupItem(w, c, list[i].v, n), c, i + 1, n)

\* for (const item of this.currentItems) this.processItem(item), from entry i
\* of the Set on.  A throw ends the loop.
RECURSIVE processEach(_, _, _, _)
processEach(w, c, i, n) ==
  LET list == w.ops[c].currentItems
  IN IF i > Len(list) \/ Raised(w) THEN w
     ELSE IF ~list[i].live THEN processEach(w, c, i + 1, n)
     ELSE processEach(processItem(w, c, list[i].v, n), c, i + 1, n)

\* reprocessAllItems
reprocessAllItems(w, c, n) ==
  LET Then(w1) == IF Raised(w1) THEN w1 ELSE processEach(w1, c, 1, n)
  IN Then(cleanupEach(w, c, 1, n))

\* the callback given to combinedContext.subscribe
FlatMapCtxOnContext(w, cb, ctx, delta, n) ==
  LET c == cb.node
  IN IF delta = Insert
       THEN LET hadContext == w.ops[c].hasContext
                w1 == [w EXCEPT !.ops[c].latestContext = ctx, !.ops[c].hasContext = TRUE]
            IN IF hadContext THEN reprocessAllItems(w1, c, n)
               ELSE processEach(w1, c, 1, n)
       ELSE w

\* the callback given to upstream.subscribe
FlatMapCtxOnUpstream(w, cb, item, delta, n) ==
  LET c == cb.node
  IN IF delta = Insert
       THEN LET w1 == [w EXCEPT !.ops[c].currentItems = LiveAdd(@, item)]
            IN IF w1.ops[c].hasContext THEN processItem(w1, c, item, n) ELSE w1
       ELSE cleanupItem([w EXCEPT !.ops[c].currentItems = LiveDelete(@, item)], c, item, n)

\* FlatMapWithContextCollection.subscribe: context first, then upstream
FlatMapCtxSubscribe(w, c, cb) ==
  LET w1 == [w EXCEPT !.subscribers[c] = SetAdd(@, cb)]
      Returned(rc, ru) ==
        [w |-> ru.w, un |-> <<Del(c, cb.id)>> \o ru.un \o rc.un \o <<FcClear(c)>>]
      Upstream(rc) ==
        Returned(rc, IF Raised(rc.w) THEN [w |-> rc.w, un |-> <<>>]
                     ELSE SubscribeTo(NewClosure(rc.w, "fcUp", c), UpOf(w, c),
                                      Closure(rc.w, "fcUp", c)))
  IN Upstream(SubscribeTo(NewClosure(w1, "fcCtx", c), w1.ops[c].combinedContext,
                          Closure(w1, "fcCtx", c)))

\* ------------------------------------------------------------- dispatch
\* c.subscribe(cb): the subscribe method of c's class; the result is the heap
\* after the call and the unsubscribe function it returns.
SubscribeTo(w, c, cb) ==
  LET kind == KindOf(w, c)
  IN CASE kind \in {"input", "from"} ->
            [w |-> CollectionSubscribe(w, c, cb), un |-> <<Del(c, cb.id)>>]
       [] kind = "flatMap" -> FlatMapSubscribe(w, c, cb)
       [] kind = "withLatest" -> WithLatestSubscribe(w, c, cb)
       [] kind = "join" -> JoinSubscribe(w, c, cb)
       [] kind = "reduce" -> ReduceSubscribe(w, c, cb)
       [] kind = "map" -> MapSubscribe(w, c, cb)
       [] kind = "filter" -> FilterSubscribe(w, c, cb)
       [] kind = "concat" -> ConcatSubscribe(w, c, cb)
       [] kind = "filterBy" -> FilterBySubscribe(w, c, cb)
       [] kind = "flatMapCtx" -> FlatMapCtxSubscribe(w, c, cb)

\* The body of a test callback: a reactive one mutates an Input, once, when
\* it is called with the change it waits for.
LogOnChange(w, cb, item, delta) ==
  LET r == w.reaction[cb.id]
  IN IF r.active /\ r.onV = item /\ r.onD = delta
       THEN LET w1 == [w EXCEPT !.reaction[cb.id] = NoReaction]
            IN IF r.op = "insert" THEN InputInsert(w1, r.c, r.v)
                                  ELSE InputRetract(w1, r.c, r.v)
       ELSE w

\* fn(item, delta): every call is logged, then the closure's body runs.
CallSubscriber(w, cb, item, delta, n) ==
  LET w1 == [w EXCEPT !.received[cb.id] = Append(@, [v |-> item, d |-> delta, n |-> n]),
                      !.trace = Append(@, [id |-> cb.id, f |-> "", v |-> item, d |-> delta])]
  IN IF Raised(w) THEN w
     ELSE
     CASE cb.kind = "log" -> LogOnChange(w1, cb, item, delta)
       [] cb.kind = "fmUp" -> FlatMapOnUpstream(w1, cb, item, delta, n)
       [] cb.kind = "fmInner" -> FlatMapOnInner(w1, cb, item, delta, n)
       [] cb.kind = "wlOther" -> WithLatestOnOther(w1, cb, item, delta, n)
       [] cb.kind = "wlUp" -> WithLatestOnUpstream(w1, cb, item, delta, n)
       [] cb.kind = "jnA" -> JoinOnA(w1, cb, item, delta, n)
       [] cb.kind = "jnB" -> JoinOnB(w1, cb, item, delta, n)
       [] cb.kind = "rd" -> ReduceOnUpstream(w1, cb, item, delta, n)
       [] cb.kind = "mp" -> MapOnUpstream(w1, cb, item, delta, n)
       [] cb.kind = "fl" -> FilterOnUpstream(w1, cb, item, delta, n)
       [] cb.kind = "cc" -> ConcatOnSource(w1, cb, item, delta, n)
       [] cb.kind = "fbCtx" -> FilterByOnContext(w1, cb, item, delta, n)
       [] cb.kind = "fbUp" -> FilterByOnUpstream(w1, cb, item, delta, n)
       [] cb.kind = "ctxCur" -> ContextOnCombined(w1, cb, item, delta, n)
       [] cb.kind = "fcCtx" -> FlatMapCtxOnContext(w1, cb, item, delta, n)
       [] cb.kind = "fcUp" -> FlatMapCtxOnUpstream(w1, cb, item, delta, n)

\* The finally block emptying the queue without running it.
TxFinallyDropsQueue(w) == [w EXCEPT !.batching = FALSE, !.pendingEmits = <<>>]

\* tx.ts tx, the loop of the finally block: the copies run in order. The
\* block runs whether fn returned or is leaving by an exception. In the
\* second case the exception is held while the loop runs, so every queued
\* emit is called, and it goes on unwinding once the loop has ended; an
\* exception of the loop itself ends the loop and takes its place.
Flush(w, toFlush) ==
  LET RECURSIVE Each(_, _)
      Each(w1, rest) ==
        IF rest = <<>> THEN w1
        ELSE LET e == Head(rest)
             IN Each(RunEmit(w1, e.c, e.v, e.d, e.n, {}), Tail(rest))
      Rethrow(w1) ==
        IF Raised(w1) THEN w1
        ELSE [w1 EXCEPT !.trace = Append(@, w.trace[Len(w.trace)])]
  IN IF Raised(w)
       THEN Rethrow(Each([w EXCEPT !.trace = SubSeq(@, 1, Len(@) - 1)], toFlush))
       ELSE Each(w, toFlush)

\* The finally block running the queue and leaving the flag set.
TxFinallyKeepsFlag(w) == Flush([w EXCEPT !.pendingEmits = <<>>], w.pendingEmits)

\* The finally block emptying the queue after the loop: a callback that
\* throws leaves the loop, and the queue is left as it was.
TxFinallyClearsAfter(w) ==
  LET w1 == Flush([w EXCEPT !.batching = FALSE], w.pendingEmits)
  IN IF Raised(w1) THEN w1 ELSE [w1 EXCEPT !.pendingEmits = <<>>]

\* tx.ts tx, the finally block: clear the flag, copy and empty the queue,
\* run the copies in order, on a return of fn and on an exception alike.
TxFinally(w) ==
  LET w1 == [w EXCEPT !.batching = FALSE]
      toFlush == w1.pendingEmits
      w2 == [w1 EXCEPT !.pendingEmits = <<>>]
  IN Flush(w2, toFlush)

isBatching == batching

\* ---------------------------------------------------------------- Init
\* The replay of a snapshot: one Insert per member, in order.
ReplayOf(snapshot) == [k \in 1..Len(snapshot) |-> [v |-> snapshot[k], d |-> Insert, n |-> 0]]

\* input(initial?): initial is absent (0) or a value.
NewInput(initial) == IF initial = 0 THEN <<>> ELSE <<initial>>

\* The fields of the collections built beforehand as their constructors
\* leave them, and reg: the registry of context-registry.ts with the
\* variables of the program that hold what it makes while it runs.
NewOps == [fm |-> FlatMapFields,
           jf |-> FlatMapFields,
           wf |-> FlatMapFields,
           jn |-> [indexA |-> <<>>, indexB |-> <<>>, emitting |-> 0],
           rd |-> [state |-> seed, hasEmitted |-> FALSE],
           wl |-> WithLatestFields,
           fb |-> [latestContext |-> undefined],
           reg |-> [registeredContexts |-> <<>>, contexts |-> <<>>, built |-> ""]]

FirstClosureId == Cardinality(SubIds) + 1

\* The heap after the Inputs (holding vals) and the derived collections have
\* been constructed; nothing is subscribed.
InitHeap(vals) ==
  /\ values = vals
  /\ data = [c \in Colls |-> IF c \in Inputs THEN vals[c] ELSE <<>>]
  /\ subscribers = [c \in Colls |-> <<>>]
  /\ batching = FALSE
  /\ pendingEmits = <<>>
  /\ txDepth = 0
  /\ ops = NewOps
  /\ arrays = <<>>
  /\ nextId = FirstClosureId
  /\ closures = <<>>
  /\ unsubOf = [s \in SubIds |-> <<>>]
  /\ received = [s \in SubIds |-> <<>>]
  /\ subAt = [s \in SubIds |-> {}]
  /\ reaction = [s \in SubIds |-> NoReaction]
  /\ callLog = <<>>
  /\ txStart = 0
  /\ txNested = FALSE
  /\ txCount = 0
  /\ txExit = "none"
  /\ trace = <<>>

\* Input a built with or without an initial value, the others empty.
Init ==
  \E ia \in {0} \cup Vals :
    InitHeap([c \in Inputs |-> IF c = "a" THEN NewInput(ia) ELSE <<>>])

\* -------------------------------------------------------------- actions
\* k more Input.emit calls fit the bound
Budget(k) == Len(callLog) + k <= MaxCalls
Frame == UNCHANGED <<txDepth, unsubOf, subAt, txStart, txNested, txCount, txExit>>

Insert_(c, v) == Budget(1) /\ Store(InputInsert(Cur, c, v)) /\ Frame
Retract_(c, v) == Budget(1) /\ Store(InputRetract(Cur, c, v)) /\ Frame
Set_(c, v) == Budget(Len(values[c]) + 1) /\ Store(InputSet(Cur, c, v)) /\ Frame
Update_(c, f) == Budget(2) /\ Store(InputUpdate(Cur, c, f)) /\ Frame
Replace_(c, o, v) == Budget(2) /\ Store(InputReplace(Cur, c, o, v)) /\ Frame

\* c.subscribe(cb) with a fresh logging callback; the test keeps the
\* unsubscribe function it gets back, and gets none when subscribe throws
Subscribe(s, c) ==
  /\ subAt[s] = {}
  /\ LET Returned(r) ==
           /\ Store(r.w)
           /\ unsubOf' = IF Raised(r.w) THEN unsubOf ELSE [unsubOf EXCEPT ![s] = r.un]
     IN Returned(SubscribeTo(Cur, c, LogCb(s)))
  /\ subAt' = [subAt EXCEPT ![s] = {c}]
  /\ UNCHANGED <<txDepth, txStart, txNested, txCount, txExit>>

\* calling that unsubscribe function
Unsubscribe(s) ==
  /\ unsubOf[s] # <<>>
  /\ Store(RunUnsub(Cur, unsubOf[s]))
  /\ unsubOf' = [unsubOf EXCEPT ![s] = <<>>]
  /\ UNCHANGED <<txDepth, subAt, txStart, txNested, txCount, txExit>>

\* tx(fn): entry (batching = true); fn's calls are the actions that follow;
\* then the finally block.
TxBegin ==
  /\ txDepth < MaxTxDepth
  /\ Budget(1)
  /\ batching' = TRUE
  /\ txDepth' = txDepth + 1
  /\ txStart' = IF txDepth = 0 THEN Len(callLog) ELSE txStart
  /\ txNested' = (txDepth > 0)
  /\ UNCHANGED <<values, data, subscribers, pendingEmits, ops, arrays, nextId,
                 closures, unsubOf, received, subAt, reaction, callLog, txCount,
                 txExit, trace>>

TxEnd ==
  /\ txDepth > 0
  /\ Store(TxFinally(Cur))
  /\ txDepth' = txDepth - 1
  /\ txCount' = IF txDepth = 1 THEN Len(pendingEmits) ELSE txCount
  /\ txExit' = IF Raised(TxFinally(Cur)) THEN "throw" ELSE "return"
  /\ UNCHANGED <<unsubOf, subAt, txStart, txNested>>

\* fn throws: the try block is left through the finally block and, there being
\* no catch, the exception reaches the caller of tx
TxThrow ==
  /\ txDepth > 0
  /\ Store(TxFinally(Cur))
  /\ txDepth' = txDepth - 1
  /\ txCount' = IF txDepth = 1 THEN Len(pendingEmits) ELSE txCount
  /\ txExit' = "throw"
  /\ UNCHANGED <<unsubOf, subAt, txStart, txNested>>

\* a tx(fn) called from top level only
TxBeginTop == txDepth = 0 /\ TxBegin

\* ---- Spec: one Input, every mutating method, callbacks subscribing late
Next ==
  \/ \E v \in Vals : Insert_("a", v)
  \/ \E v \in Vals : Retract_("a", v)
  \/ \E v \in Vals : Set_("a", v)
  \/ \E f \in Fns : Update_("a", f)
  \/ \E o \in Vals, v \in Vals : Replace_("a", o, v)
  \/ \E s \in SubIds : Subscribe(s, "a")

Spec == Init /\ [][Next]_vars

\* ---- SpecInput: Input a after any inserts of distinct values (it holds them
\* in insertion order), every mutating method, callbacks subscribing late
DistinctSeqs ==
  {q \in UNION {[1..k -> Vals] : k \in 0..MaxVal} :
     \A i \in DOMAIN q, j \in DOMAIN q : i # j => q[i] # q[j]}

InitInput ==
  \E held \in DistinctSeqs :
    InitHeap([c \in Inputs |-> IF c = "a" THEN held ELSE <<>>])

SpecInput == InitInput /\ [][Next]_vars

\* ---- SpecTx: two Inputs mutated inside and outside tx(fn).  Callback 1
\* listens to both Inputs from the start; callback 2 subscribes to a later.
InitTx ==
  /\ values = [c \in Inputs |-> <<>>]
  /\ data = [c \in Colls |-> <<>>]
  /\ subscribers = [c \in Colls |-> IF c \in {"a", "b"} THEN <<LogCb(1)>> ELSE <<>>]
  /\ batching = FALSE
  /\ pendingEmits = <<>>
  /\ txDepth = 0
  /\ ops = NewOps
  /\ arrays = <<>>
  /\ nextId = FirstClosureId
  /\ closures = <<>>
  /\ unsubOf = [s \in SubIds |-> IF s = 1 THEN <<Del("a", 1), Del("b", 1)>> ELSE <<>>]
  /\ received = [s \in SubIds |-> <<>>]
  /\ subAt = [s \in SubIds |-> IF s = 1 THEN {"a", "b"} ELSE {}]
  /\ reaction = [s \in SubIds |-> NoReaction]
  /\ callLog = <<>>
  /\ txStart = 0
  /\ txNested = FALSE
  /\ txCount = 0
  /\ txExit = "none"
  /\ trace = <<>>

NextTx ==
  \/ \E v \in Vals : Insert_("a", v)
  \/ \E v \in Vals : Retract_("a", v)
  \/ Insert_("b", 1)
  \/ Retract_("b", 1)
  \/ \E s \in SubIds : Subscribe(s, "a")
  \/ TxBegin
  \/ TxEnd

SpecTx == InitTx /\ [][NextTx]_vars

\* ---- SpecTxThrow: the same two Inputs; a top-level tx(fn) whose fn returns
\* or throws after any number of mutating calls
NextTxThrow ==
  \/ \E v \in Vals : Insert_("a", v)
  \/ \E v \in Vals : Retract_("a", v)
  \/ Insert_("b", 1)
  \/ Retract_("b", 1)
  \/ TxBeginTop
  \/ TxEnd
  \/ TxThrow

SpecTxThrow == InitTx /\ [][NextTxThrow]_vars

\* ---- SpecRe: one Input with two callbacks subscribed from the start; the
\* first one mutates the Input from inside its own call.
InitRe ==
  /\ \E ia \in {0} \cup Vals :
       /\ values = [c \in Inputs |-> IF c = "a" THEN NewInput(ia) ELSE <<>>]
       /\ data = [c \in Colls |-> IF c = "a" THEN NewInput(ia) ELSE <<>>]
       /\ received = [s \in SubIds |-> ReplayOf(NewInput(ia))]
  /\ subscribers = [c \in Colls |->
       IF c = "a" THEN [s \in SubIds |-> LogCb(s)] ELSE <<>>]
  /\ batching = FALSE
  /\ pendingEmits = <<>>
  /\ txDepth = 0
  /\ ops = NewOps
  /\ arrays = <<>>
  /\ nextId = FirstClosureId
  /\ closures = <<>>
  /\ unsubOf = [s \in SubIds |-> <<Del("a", s)>>]
  /\ subAt = [s \in SubIds |-> {"a"}]
  /\ \E r \in Reactions : reaction = [s \in SubIds |-> IF s = 1 THEN r ELSE NoReaction]
  /\ callLog = <<>>
  /\ txStart = 0
  /\ txNested = FALSE
  /\ txCount = 0
  /\ txExit = "none"
  /\ trace = <<>>

NextRe ==
  \/ \E v \in Vals : Insert_("a", v)
  \/ \E v \in Vals : Retract_("a", v)
  \/ TxBeginTop
  \/ TxEnd

SpecRe == InitRe /\ [][NextRe]_vars

\* ---- SpecFlatMap: fm = a.flatMap(item => inner Input of item), one
\* callback.  Every inner Input was built holding 10 * item.
InitFlatMap ==
  \E ia \in {0} \cup Vals :
    InitHeap([c \in Inputs |->
      IF c = "a" THEN NewInput(ia)
      ELSE IF \E v \in Vals : c = InnerNames[v]
        THEN <<10 * (CHOOSE v \in Vals : c = InnerNames[v])>>
        ELSE <<>>])

NextFlatMap ==
  \/ \E v \in Vals : Insert_("a", v)
  \/ \E v \in Vals : Retract_("a", v)
  \/ \E v \in Vals : \E u \in InnerVals(v) : Insert_(flatMapFn(v), u)
  \/ \E v \in Vals : \E u \in InnerVals(v) : Retract_(flatMapFn(v), u)
  \/ Subscribe(1, "fm")
  \/ Unsubscribe(1)

SpecFlatMap == InitFlatMap /\ [][NextFlatMap]_vars

\* ---- SpecJoin: jn = a.join(b, keyA, keyB), one callback
InitTwo ==
  \E ia \in {0} \cup Vals, ib \in {0} \cup Vals :
    InitHeap([c \in Inputs |->
      IF c = "a" THEN NewInput(ia) ELSE IF c = "b" THEN NewInput(ib) ELSE <<>>])

NextJoin ==
  \/ \E c \in {"a", "b"}, v \in Vals : Insert_(c, v)
  \/ \E c \in {"a", "b"}, v \in Vals : Retract_(c, v)
  \/ Subscribe(1, "jn")

SpecJoin == InitTwo /\ [][NextJoin]_vars

\* ---- SpecReduce: rd = a.reduce(seed, reduceFn), one callback
NextReduce ==
  \/ \E v \in Vals : Insert_("a", v)
  \/ \E v \in Vals : Retract_("a", v)
  \/ \E v \in Vals : Set_("a", v)
  \/ Subscribe(1, "rd")

SpecReduce == Init /\ [][NextReduce]_vars

\* ---- SpecWithLatest: wl = a.withLatest(b), one callback
NextWithLatest ==
  \/ \E c \in {"a", "b"}, v \in Vals : Insert_(c, v)
  \/ \E c \in {"a", "b"}, v \in Vals : Retract_(c, v)
  \/ Subscribe(1, "wl")

SpecWithLatest == InitTwo /\ [][NextWithLatest]_vars

\* ---- SpecMap: mp = a.map(mapFn), one callback
NextMap ==
  \/ \E v \in Vals : Insert_("a", v)
  \/ \E v \in Vals : Retract_("a", v)
  \/ \E v \in Vals : Set_("a", v)
  \/ Subscribe(1, "mp")

SpecMap == Init /\ [][NextMap]_vars

\* ---- SpecFilter: fl = a.filter(predicate), one callback
NextFilter ==
  \/ \E v \in Vals : Insert_("a", v)
  \/ \E v \in Vals : Retract_("a", v)
  \/ \E v \in Vals : Set_("a", v)
  \/ Subscribe(1, "fl")

SpecFilter == Init /\ [][NextFilter]_vars

\* ---- SpecConcat: cc = concat(a, b), one callback
NextConcat ==
  \/ \E c \in {"a", "b"}, v \in Vals : Insert_(c, v)
  \/ \E c \in {"a", "b"}, v \in Vals : Retract_(c, v)
  \/ \E c \in {"a", "b"}, v \in Vals : Set_(c, v)
  \/ Subscribe(1, "cc")

SpecConcat == InitTwo /\ [][NextConcat]_vars

\* ---- SpecFilterBy: fb = a.filterBy(b, predicateBy), one callback
NextFilterBy ==
  \/ \E c \in {"a", "b"}, v \in Vals : Insert_(c, v)
  \/ \E c \in {"a", "b"}, v \in Vals : Retract_(c, v)
  \/ Subscribe(1, "fb")

SpecFilterBy == InitTwo /\ [][NextFilterBy]_vars

\* ---- SpecReduceLate: rd = a.reduce(seed, reduceFn), two callbacks
\* subscribing one after the other
NextReduceLate ==
  \/ \E v \in Vals : Insert_("a", v)
  \/ \E v \in Vals : Retract_("a", v)
  \/ \E s \in SubIds : Subscribe(s, "rd")

SpecReduceLate == Init /\ [][NextReduceLate]_vars

\* ---- SpecContext: ctx = Context({a, b}), then set() calls on a and b
\* Context(inputs), called once
CreateContext(keys) ==
  /\ ops["reg"].contexts = <<>>
  /\ Store(NewContext(Cur, keys))
  /\ Frame

NextContext ==
  \/ CreateContext(<<"a", "b">>)
  \/ \E c \in {"a", "b"}, v \in Vals : Set_(c, v)

SpecContext == InitTwo /\ [][NextContext]_vars

\* ---- SpecCtxFlatMap: ctx = Context({b}), a flatMap over a built before the
\* context exists, while it is registered or after ctx.dispose(), one callback.
\* a.flatMap(f), called once
BuildFlatMap ==
  /\ ops["reg"].built = ""
  /\ Store(CollectionFlatMap(Cur))
  /\ Frame

\* ctx.dispose()
Dispose ==
  /\ \E i \in DOMAIN ops["reg"].contexts :
       /\ ~ops["reg"].contexts[i].disposed
       /\ Store(ContextDispose(Cur, i))
  /\ Frame

\* The graph is built before the Inputs are driven.
Built == ops["reg"].built # ""

\* subscribing the callback to the flatMap node that was built
SubscribeBuilt(s) ==
  /\ Built
  /\ Subscribe(s, ops["reg"].built)

InitCtxFlatMap ==
  \E ib \in {0} \cup Vals :
    InitHeap([c \in Inputs |->
      IF c = "a" THEN NewInput(0)
      ELSE IF c = "b" THEN NewInput(ib)
      ELSE <<10 * (CHOOSE v \in Vals : c = InnerNames[v])>>])

NextCtxFlatMap ==
  \/ CreateContext(<<"b">>)
  \/ BuildFlatMap
  \/ Dispose
  \/ SubscribeBuilt(1)
  \/ Built /\ \E v \in Vals : Insert_("a", v)
  \/ Built /\ \E v \in Vals : Retract_("a", v)
  \/ Built /\ \E v \in Vals : Set_("b", v)

SpecCtxFlatMap == InitCtxFlatMap /\ [][NextCtxFlatMap]_vars

\* ---- SpecThrow: one callback on a map, a filter, a map followed by a
\* filter, a join or a reduce; the Inputs are also given the value on which
\* the functions throw, and the caller catches.
\* the catch block of the caller of the Input method
Catch ==
  /\ Raised(Cur)
  /\ trace' = Append(trace, [id |-> 0, f |-> "catch", v |-> 0, d |-> 0])
  /\ UNCHANGED <<values, data, subscribers, batching, pendingEmits, txDepth, ops,
                 arrays, nextId, unsubOf, closures, received, subAt, reaction,
                 callLog, txStart, txNested, txCount, txExit>>

NextThrow ==
  \/ /\ ~Raised(Cur)
     /\ \/ \E c \in {"a", "b"}, v \in Vals \cup {Bad} : Insert_(c, v)
        \/ \E c \in {"a", "b"} : Retract_(c, Bad)
        \/ /\ ~Has(values["a"], Bad) /\ ~Has(values["b"], Bad)
           /\ \E c \in {"mp", "fl", "mf", "jn", "rd"} : Subscribe(1, c)
  \/ Catch

SpecThrow == Init /\ [][NextThrow]_vars

\* ---- SpecFlushThrow: Input a with mp = a.map(mapFn) and a logging callback,
\* both subscribed before the first mutation; a top-level tx(fn) whose fn returns or throws; a is also given the value on
\* which mapFn throws, so that a callback of a throws during the flush; the
\* caller of tx or of the Input method catches.
NextFlushThrow ==
  \/ /\ ~Raised(Cur)
     /\ \/ \E v \in Vals \cup {Bad} : Insert_("a", v)
        \/ Retract_("a", Bad)
        \/ callLog = <<>> /\ txDepth = 0 /\ Subscribe(1, "mp")
        \/ callLog = <<>> /\ txDepth = 0 /\ Subscribe(2, "a")
        \/ TxBeginTop
        \/ TxEnd
        \/ TxThrow
  \/ Catch

SpecFlushThrow == Init /\ [][NextFlushThrow]_vars

\* ---- SpecLate: jn = a.join(b, keyA, keyB) and rd = a.reduce(seed, reduceFn),
\* two callbacks subscribing to the same one, one after the other
NextLate ==
  \/ \E v \in Vals : Insert_("a", v)
  \/ Insert_("b", 1)
  \/ \E c \in {"jn", "rd"} : Subscribe(1, c)
  \/ \E c \in {"jn", "rd"} : subAt[1] = {c} /\ Subscribe(2, c)

SpecLate == InitTwo /\ [][NextLate]_vars

\* ---- SpecJoinFlat: jf = a.join(b, keyA, keyB).flatMap(f), one callback
NextJoinFlat ==
  \/ \E c \in {"a", "b"}, v \in Vals : Insert_(c, v)
  \/ \E c \in {"a", "b"}, v \in Vals : Retract_(c, v)
  \/ Subscribe(1, "jf")

SpecJoinFlat == InitCtxFlatMap /\ [][NextJoinFlat]_vars

\* ---- SpecWithLatestFlat: wf = a.withLatest(b).flatMap(f), one callback
NextWithLatestFlat ==
  \/ \E v \in Vals : Insert_("a", v)
  \/ \E v \in Vals : Retract_("a", v)
  \/ \E v \in Vals : Insert_("b", v)
  \/ Subscribe(1, "wf")

SpecWithLatestFlat == InitCtxFlatMap /\ [][NextWithLatestFlat]_vars

\* ---- SpecResub: jn = a.join(b, keyA, keyB); a callback subscribes and
\* unsubscribes, then another one subscribes
NextResub ==
  \/ \E v \in Vals : Insert_("a", v)
  \/ Insert_("b", 1)
  \/ Subscribe(1, "jn")
  \/ Unsubscribe(1)
  \/ subAt[1] = {"jn"} /\ unsubOf[1] = <<>> /\ Subscribe(2, "jn")

SpecResub == InitTwo /\ [][NextResub]_vars

\* =============================================================== claims
\* Folding a change log: the sum of the deltas received for value v.
Count(log, v) ==
  Cardinality({k \in DOMAIN log : log[k].v = v /\ log[k].d = Insert})
  - Cardinality({k \in DOMAIN log : log[k].v = v /\ log[k].d = Retract})

\* The calls numbered above `from' that concern a collection callback s
\* listens to, as s would receive them, in call order.
CallsFor(s, from) ==
  LET idx == SelectSeq([k \in 1..Len(callLog) |-> k],
                       LAMBDA k : k > from /\ callLog[k].c \in subAt[s])
  IN [j \in 1..Len(idx) |-> [v |-> callLog[idx[j]].v, d |-> callLog[idx[j]].d, n |-> idx[j]]]

\* C1: for every subscriber of Input a and every sequence of insert / retract /
\* set / update / replace calls with arbitrary arguments, the per-value sum of
\* the deltas received is 1 for each value in getAll() and 0 for every other
\* value (hence never negative).
C1_FoldIsMembership ==
  \A s \in SubIds : subAt[s] = {"a"} =>
    \A v \in Vals : Count(received[s], v) = (IF Has(getAll("a"), v) THEN 1 ELSE 0)

\* C2: a fresh subscribe(cb) on an Input calls cb, before it returns, exactly
\* once per value of getAll() with Insert, in getAll() order, and with no Retract.
C2_ReplayOnSubscribe ==
  [][\A s \in SubIds : (subAt[s] = {} /\ subAt'[s] = {"a"}) =>
        received'[s] = ReplayOf(values'["a"])]_vars

C2_Witness ==
  \E s \in SubIds :
    /\ subAt[s] = {"a"}
    /\ Len(received[s]) = 2
    /\ \A k \in DOMAIN received[s] : received[s][k].n = 0
    /\ \E k \in DOMAIN callLog : callLog[k].d = Retract

\* C7: during a top-level tx(fn) no callback is called for a mutation fn makes;
\* when tx returns every emission scheduled in fn has been delivered exactly
\* once to each listening callback, in the order of the calls, across Inputs.
C7_TxDefersThenFlushesInOrder ==
  [][/\ (txDepth = 1 /\ txDepth' = 1 /\ ~txNested /\ callLog' # callLog)
          => received' = received
     /\ (txDepth = 1 /\ txDepth' = 0 /\ ~txNested)
          => /\ pendingEmits' = <<>>
             /\ \A s \in SubIds : received'[s] = received[s] \o CallsFor(s, txStart)
    ]_vars

C7_Witness ==
  /\ txDepth = 0
  /\ ~txNested
  /\ txCount = 3
  /\ \E j, k \in DOMAIN received[1] :
       /\ j < k
       /\ received[1][j].n > 0
       /\ received[1][k].n > 0
       /\ callLog[received[1][j].n].c = "b"
       /\ callLog[received[1][k].n].c = "a"

\* C8: for tx(() => { i.retract(old); i.insert(new) }) every subscriber gets
\* Retract(old) immediately followed by Insert(new), with no delta of a
\* mutation made outside fn in between.
C8_TxPairContiguous ==
  (/\ txDepth = 0
   /\ txCount = 2
   /\ callLog[txStart + 1].d = Retract
   /\ callLog[txStart + 2].d = Insert)
  => \A s \in SubIds : \A k \in DOMAIN received[s] :
       received[s][k].n = txStart + 1 =>
         /\ k < Len(received[s])
         /\ received[s][k + 1].n = txStart + 2

\* C9: each subscriber receives the deltas in the order in which the mutations
\* that caused them were called, also when a callback mutates the Input while
\* a delta is being delivered.
C9_DeliveryInCallOrder ==
  \A s \in SubIds : \A j, k \in DOMAIN received[s] :
    (j < k /\ received[s][j].n > 0) => received[s][j].n < received[s][k].n

\* ---- helpers for the operator claims
\* The call log of the first closure of the given kind.
ClosureLog(kind) ==
  LET made == SelectSeq(closures, LAMBDA cb : cb.kind = kind)
  IN IF made = <<>> THEN <<>> ELSE received[Head(made).id]

\* A change log without the ghost call numbers.
Strip(log) == [k \in DOMAIN log |-> [v |-> log[k].v, d |-> log[k].d]]

\* Every Insert is of a value the fold does not hold, every Retract of one it holds.
WellFormed(log) ==
  \A k \in DOMAIN log :
    Count(SubSeq(log, 1, k - 1), log[k].v) = (IF log[k].d = Insert THEN 0 ELSE 1)

\* Callback 1 is subscribed and has not unsubscribed.
Listening == unsubOf[1] # <<>>
Gone == subAt[1] # {} /\ unsubOf[1] = <<>>

\* C3: flatMap over Input a, one subscriber: once an upstream item is no longer
\* held by a, the fold of the received changes contains no value of that item's
\* inner collection and flatMap holds no subscription to that inner collection.
C3_NoStaleInnerRows ==
  Listening =>
    \A item \in Vals : ~Has(values["a"], item) =>
      /\ \A u \in InnerVals(item) : Count(received[1], u) <= 0
      /\ subscribers[flatMapFn(item)] = <<>>

\* C4: join over Inputs a and b, one subscriber: at every point the pairs
\* implied by folding the emitted deltas are the equi-join of the members
\* implied by folding each side's own deltas.
C4_JoinIsEquiJoin ==
  Listening =>
    \A x \in Vals, y \in Vals :
      (Count(received[1], <<x, y>>) > 0)
        <=> (/\ keyA(x) = keyB(y)
             /\ Count(ClosureLog("jnA"), x) > 0
             /\ Count(ClosureLog("jnB"), y) > 0)

\* C5: reduce(seed, fold) with one subscriber and upstream changes
\* (v1,d1)..(vn,dn): nothing for n = 0, else Insert(s1), Retract(s1),
\* Insert(s2), ..., Retract(s(n-1)), Insert(sn) with s0 = seed and
\* si = fold(s(i-1), vi, di); the fold of the output holds one row, the state.
RECURSIVE ReduceOutput(_, _, _)
ReduceOutput(log, s, has) ==
  IF log = <<>> THEN <<>>
  ELSE LET s2 == reduceFn(s, Head(log).v, Head(log).d)
       IN (IF has THEN <<[v |-> s, d |-> Retract]>> ELSE <<>>)
          \o <<[v |-> s2, d |-> Insert]>>
          \o ReduceOutput(Tail(log), s2, TRUE)

C5_ReduceSequence ==
  Listening =>
    /\ Strip(received[1]) = ReduceOutput(ClosureLog("rd"), seed, FALSE)
    /\ \A k \in DOMAIN received[1] :
         Count(received[1], received[1][k].v)
           = (IF received[1][k].v = ops["rd"].state THEN 1 ELSE 0)

C5_Witness ==
  /\ Listening
  /\ Len(received[1]) = 5
  /\ \E k \in DOMAIN ClosureLog("rd") : ClosureLog("rd")[k].d = Retract
  /\ ClosureLog("rd")[1].n = 0

\* C6: withLatest with one subscriber, upstream inserts of absent items and
\* retracts of held items, any Insert/Retract on other: if other has delivered
\* an Insert, the fold of the output is exactly {[item, L] : item held upstream}
\* with L the value of other's most recent Insert; otherwise nothing was emitted.
LastInsert(log) ==
  log[CHOOSE k \in DOMAIN log :
        log[k].d = Insert /\ \A j \in DOMAIN log : (j > k => log[j].d # Insert)].v

C6_WithLatestFold ==
  (Listening /\ WellFormed(ClosureLog("wlUp"))) =>
    IF \E k \in DOMAIN ClosureLog("wlOther") : ClosureLog("wlOther")[k].d = Insert
      THEN \A x \in Vals, l \in Vals :
             Count(received[1], <<x, l>>)
               = (IF Has(values["a"], x) /\ l = LastInsert(ClosureLog("wlOther")) THEN 1 ELSE 0)
      ELSE received[1] = <<>>

C6_Witness ==
  /\ Listening
  /\ WellFormed(ClosureLog("wlUp"))
  /\ values["a"] # <<>>
  /\ \E k \in DOMAIN ClosureLog("wlOther") : ClosureLog("wlOther")[k].d = Retract
  /\ \E j, k \in DOMAIN ClosureLog("wlOther") :
       /\ ClosureLog("wlOther")[j].d = Insert
       /\ ClosureLog("wlOther")[k].d = Insert
       /\ ClosureLog("wlOther")[j].v # ClosureLog("wlOther")[k].v
  /\ \E k \in DOMAIN received[1] : received[1][k].d = Retract

\* C10: after unsubscribe, every listener the subscription registered on the
\* upstream collection and on the flatMap inner collections is removed: every
\* subscriber set is what it was before subscribe (empty).
C10_UnsubscribeRemovesAll ==
  Gone => \A c \in Colls : subscribers[c] = <<>>

\* ---- helpers for the claims on map, filter and concat
\* The arguments function f was called with, in call order.
FnArgs(f) ==
  LET calls == SelectSeq(trace, LAMBDA e : e.f = f)
  IN [k \in DOMAIN calls |-> calls[k].v]

\* The Input.emit calls of log numbered above `from', as a listener gets them.
CallsAfter(log, from) ==
  [j \in 1..(Len(log) - from) |->
     [v |-> log[from + j].v, d |-> log[from + j].d, n |-> from + j]]

\* C11: map(f) with one subscriber: for the upstream change sequence
\* (v1,d1)..(vn,dn), replay and live changes, the downstream sequence is
\* exactly (f(v1),d1)..(f(vn),dn), and f was called once per change.
C11_MapSequence ==
  Listening =>
    /\ Strip(received[1]) =
         [k \in DOMAIN ClosureLog("mp") |->
            [v |-> mapFn(ClosureLog("mp")[k].v), d |-> ClosureLog("mp")[k].d]]
    /\ FnArgs("mapFn") = [k \in DOMAIN ClosureLog("mp") |-> ClosureLog("mp")[k].v]

C11_Witness ==
  /\ Listening
  /\ Len(received[1]) = 3
  /\ received[1][1].n = 0
  /\ received[1][2] = [v |-> mapFn(1), d |-> Retract, n |-> 1]
  /\ received[1][3].d = Insert

\* C12: filter(p) with one subscriber: the downstream sequence is exactly the
\* subsequence of the upstream changes (v,d) with p(v), unchanged and in order.
C12_FilterSubsequence ==
  Listening =>
    Strip(received[1]) = Strip(SelectSeq(ClosureLog("fl"), LAMBDA e : predicate(e.v)))

C12_Witness ==
  /\ Listening
  /\ Len(ClosureLog("fl")) = 4
  /\ Len(received[1]) = 2
  /\ received[1][1].d = Insert
  /\ received[1][2].d = Retract

\* C13: concat(a, b) with one subscriber: subscribe replays the snapshot of a,
\* then the snapshot of b; afterwards every change of either source is
\* forwarded exactly once and unchanged (no deduplication).
C13_ConcatForwardsAll ==
  [][/\ (subAt[1] = {} /\ subAt'[1] = {"cc"}) =>
          received'[1] = ReplayOf(values["a"]) \o ReplayOf(values["b"])
     /\ (Listening /\ callLog' # callLog) =>
          received'[1] = received[1] \o CallsAfter(callLog', Len(callLog))]_vars

C13_Witness ==
  /\ Listening
  /\ Len(received[1]) = 4
  /\ received[1][1].n = 0 /\ received[1][2].n = 0
  /\ received[1][1].v # received[1][2].v
  /\ received[1][3].n = 1 /\ received[1][4].n = 2
  /\ callLog[1].c # callLog[2].c
  /\ received[1][3].v = received[1][4].v
  /\ received[1][3].d = Insert /\ received[1][4].d = Insert

\* ---- helpers for the claims on flatMap
\* The ids of the closures of the given kind.
ClosureIds(kind) == {closures[k].id : k \in {j \in DOMAIN closures : closures[j].kind = kind}}

\* The values of the Inserts of a change log, in order.
InsertedValues(log) ==
  LET ins == SelectSeq(log, LAMBDA e : e.d = Insert)
  IN [k \in DOMAIN ins |-> ins[k].v]

\* C14: flatMap with one subscriber: f is invoked exactly once per upstream
\* Insert, and every Insert/Retract an inner collection delivers (replay and
\* later changes) is delivered downstream at once, unchanged, in the same order.
C14_FlatMapForwardsInner ==
  /\ FnArgs("flatMapFn") = InsertedValues(ClosureLog("fmUp"))
  /\ Listening =>
       \A k \in DOMAIN trace :
         (trace[k].f = "" /\ trace[k].id \in ClosureIds("fmInner")) =>
           /\ k < Len(trace)
           /\ trace[k + 1] = [trace[k] EXCEPT !.id = 1]

C14_Witness ==
  /\ Listening
  /\ FnArgs("flatMapFn") = <<1>>
  /\ Strip(received[1]) = <<[v |-> 10, d |-> Insert], [v |-> 11, d |-> Insert],
                            [v |-> 10, d |-> Retract]>>
  /\ callLog[1] = [c |-> "a", v |-> 1, d |-> Insert]

\* ---- helpers for the claims on withLatest
\* The items a change log leaves held, in the order they were inserted.
RECURSIVE HeldOrder(_)
HeldOrder(log) ==
  IF log = <<>> THEN <<>>
  ELSE LET prev == HeldOrder(SubSeq(log, 1, Len(log) - 1))
           last == log[Len(log)]
       IN IF last.d = Insert THEN SetAdd(prev, last.v) ELSE SetDelete(prev, last.v)

\* One change of delta d, numbered n, per item: the tuple [item, l].
TuplesOf(items, l, d, n) == [k \in DOMAIN items |-> [v |-> <<items[k], l>>, d |-> d, n |-> n]]

HasInsert(log) == \E k \in DOMAIN log : log[k].d = Insert

\* C15: when other emits an Insert while withLatest has a latest value and n
\* upstream items are tracked, withLatest emits exactly n Retracts of the old
\* tuples, then exactly n Inserts of [item, newLatest], both runs in the order
\* the items were inserted upstream.
C15_ReemitRetractsThenInserts ==
  [][\A l \in Vals :
       (/\ Listening
        /\ HasInsert(ClosureLog("wlOther"))
        /\ callLog' = Append(callLog, [c |-> "b", v |-> l, d |-> Insert]))
       => received'[1] =
            received[1]
            \o TuplesOf(HeldOrder(ClosureLog("wlUp")), LastInsert(ClosureLog("wlOther")),
                        Retract, Len(callLog'))
            \o TuplesOf(HeldOrder(ClosureLog("wlUp")), l, Insert, Len(callLog'))]_vars

C15_Witness ==
  /\ Listening
  /\ Len(callLog) = 2
  /\ Strip(received[1]) =
       <<[v |-> <<1, 1>>, d |-> Insert], [v |-> <<2, 1>>, d |-> Insert],
         [v |-> <<1, 1>>, d |-> Retract], [v |-> <<2, 1>>, d |-> Retract],
         [v |-> <<1, 2>>, d |-> Insert], [v |-> <<2, 2>>, d |-> Insert]>>

\* C16: while other has delivered no Insert, withLatest emits nothing for
\* upstream inserts and retracts and only tracks the held items; other's first
\* Insert L emits exactly one Insert([item, L]) per item held upstream at that
\* moment and no Retract.
C16_NothingBeforeFirstLatest ==
  [][(Listening /\ ~HasInsert(ClosureLog("wlOther"))) =>
       /\ received[1] = <<>>
       /\ Spread(ops["wl"].currentItems) = values["a"]
       /\ \A l \in Vals :
            callLog' = Append(callLog, [c |-> "b", v |-> l, d |-> Insert])
              => received'[1] = TuplesOf(values["a"], l, Insert, Len(callLog'))
       /\ (callLog' # callLog /\ callLog'[Len(callLog')] \notin [c : {"b"}, v : Vals, d : {Insert}])
              => received'[1] = <<>>]_vars

C16_Witness ==
  /\ Listening
  /\ Strip(ClosureLog("wlUp")) = <<[v |-> 1, d |-> Insert], [v |-> 2, d |-> Insert],
                                   [v |-> 1, d |-> Retract]>>
  /\ Len(callLog) = 3
  /\ callLog[3] = [c |-> "b", v |-> 1, d |-> Insert]
  /\ Strip(received[1]) = <<[v |-> <<2, 1>>, d |-> Insert]>>

\* C17: filterBy: a change on the context collection causes no downstream
\* emission; an upstream change (v,d) is forwarded unchanged iff a context
\* value has arrived and predicate(v, c) holds for the latest one, else dropped.
C17_FilterByLatestContext ==
  [][/\ (subAt[1] = {} /\ subAt'[1] = {"fb"}) =>
          received'[1] =
            IF values["b"] = <<>> THEN <<>>
            ELSE SelectSeq(ReplayOf(values["a"]),
                           LAMBDA e : predicateBy(e.v, values["b"][Len(values["b"])]))
     /\ Listening =>
          \A v \in Vals, d \in Deltas :
            /\ callLog' = Append(callLog, [c |-> "b", v |-> v, d |-> d])
                 => received'[1] = received[1]
            /\ callLog' = Append(callLog, [c |-> "a", v |-> v, d |-> d])
                 => received'[1] =
                      IF /\ HasInsert(ClosureLog("fbCtx"))
                         /\ predicateBy(v, LastInsert(ClosureLog("fbCtx")))
                        THEN Append(received[1], [v |-> v, d |-> d, n |-> Len(callLog')])
                        ELSE received[1]]_vars

C17_Witness ==
  /\ Listening
  /\ callLog = <<[c |-> "a", v |-> 2, d |-> Retract], [c |-> "b", v |-> 2, d |-> Insert],
                 [c |-> "a", v |-> 2, d |-> Insert]>>
  /\ received[1] = <<[v |-> 2, d |-> Insert, n |-> 0], [v |-> 2, d |-> Retract, n |-> 1]>>

\* ---- helpers for the claims on join
\* The rows a change log leaves indexed, in insertion order: an Insert appends
\* the row, a Retract removes its first occurrence.
RECURSIVE Rows(_)
Rows(log) ==
  IF log = <<>> THEN <<>>
  ELSE LET prev == Rows(SubSeq(log, 1, Len(log) - 1))
           last == log[Len(log)]
       IN IF last.d = Insert THEN Append(prev, last.v) ELSE RemoveFirst(prev, last.v)

RowsA(k) == SelectSeq(Rows(ClosureLog("jnA")), LAMBDA x : keyA(x) = k)
RowsB(k) == SelectSeq(Rows(ClosureLog("jnB")), LAMBDA y : keyB(y) = k)

\* C18: on Insert (Retract) of a row a with key k on side A, join emits exactly
\* one Insert([a, b]) (Retract([a, b])) per row b indexed under k on side B, in
\* the order those rows were inserted, and nothing else; side B is symmetric.
C18_JoinEmitsPerMatchingRow ==
  [][Listening =>
       \A x \in Vals, d \in Deltas :
         /\ callLog' = Append(callLog, [c |-> "a", v |-> x, d |-> d])
              => received'[1] = received[1] \o
                   [k \in DOMAIN RowsB(keyA(x)) |->
                      [v |-> <<x, RowsB(keyA(x))[k]>>, d |-> d, n |-> Len(callLog')]]
         /\ callLog' = Append(callLog, [c |-> "b", v |-> x, d |-> d])
              => received'[1] = received[1] \o
                   [k \in DOMAIN RowsA(keyB(x)) |->
                      [v |-> <<RowsA(keyB(x))[k], x>>, d |-> d, n |-> Len(callLog')]]]_vars

C18_Witness ==
  /\ Listening
  /\ Len(callLog) = 3
  /\ callLog[3] = [c |-> "a", v |-> 1, d |-> Retract]
  /\ Strip(received[1]) =
       <<[v |-> <<1, 1>>, d |-> Insert], [v |-> <<1, 2>>, d |-> Insert],
         [v |-> <<1, 1>>, d |-> Retract], [v |-> <<1, 2>>, d |-> Retract]>>
  /\ received[1][1].n = 1 /\ received[1][2].n = 2

\* C19: a callback that subscribes to a reduce node whose state S has already
\* been reached (another subscriber has received Insert(S) last) receives from
\* that subscribe call exactly one Insert(S) and no Retract, whatever the
\* upstream collection holds.
C19_LateSubscriberGetsState ==
  [][\A s \in SubIds, t \in SubIds :
       (/\ s # t
        /\ subAt[t] = {"rd"} /\ received[t] # <<>>
        /\ subAt[s] = {} /\ subAt'[s] = {"rd"})
       => Strip(received'[s]) = <<[v |-> received[t][Len(received[t])].v, d |-> Insert]>>]_vars

\* The queued emissions as callback s will receive them.
QueuedFor(s) ==
  LET q == SelectSeq(pendingEmits, LAMBDA e : e.c \in subAt[s])
  IN [k \in DOMAIN q |-> [v |-> q[k].v, d |-> q[k].d, n |-> q[k].n]]

\* C20: if fn throws inside tx(fn), the batching flag is cleared, every
\* emission queued before the throw is delivered in scheduling order, and the
\* exception propagates to the caller of tx.
C20_ThrowStillFlushes ==
  [][(txDepth > 0 /\ txDepth' = txDepth - 1 /\ txExit' = "throw") =>
       /\ batching' = FALSE
       /\ pendingEmits' = <<>>
       /\ \A s \in SubIds : received'[s] = received[s] \o QueuedFor(s)]_vars

C20_Witness ==
  /\ txExit = "throw"
  /\ txDepth = 0
  /\ txCount = 2
  /\ ~batching
  /\ Len(callLog) = 2
  /\ callLog[1].c = "b" /\ callLog[2].c = "a"
  /\ received[1] = CallsAfter(callLog, 0)

\* ---- helpers for the claims on the Input methods
Subscribed(s) == subAt[s] = {"a"}

\* One change per member of items, numbered from + 1, from + 2, ...
ChangesOf(items, d, from) ==
  [k \in DOMAIN items |-> [v |-> items[k], d |-> d, n |-> from + k]]

Occurrences(seq, v) == Cardinality({k \in DOMAIN seq : seq[k] = v})

\* C21: insert(v) on an Input that already holds v leaves getAll() unchanged
\* (v held exactly once) and still delivers one Insert(v) to every subscriber.
C21_ReinsertStillEmits ==
  [][\A v \in Vals :
       (Has(getAll("a"), v) /\ Insert_("a", v)) =>
         /\ getAll("a")' = getAll("a")
         /\ Occurrences(getAll("a")', v) = 1
         /\ \A s \in SubIds : Subscribed(s) =>
              received'[s] = Append(received[s], [v |-> v, d |-> Insert, n |-> Len(callLog')])]_vars

C21_Witness ==
  /\ Subscribed(1) /\ Subscribed(2)
  /\ getAll("a") = <<2, 1>>
  /\ Len(callLog) = 1
  /\ received[1] = <<[v |-> 2, d |-> Insert, n |-> 0], [v |-> 1, d |-> Insert, n |-> 0],
                     [v |-> 1, d |-> Insert, n |-> 1]>>
  /\ received[2] = received[1]

\* C22: set(v) on an Input holding h1..hn in insertion order delivers
\* Retract(h1), ..., Retract(hn), then Insert(v) to each subscriber and leaves
\* getAll() = [v]; with n = 0 it delivers only Insert(v).
C22_SetRetractsAllThenInserts ==
  [][\A v \in Vals :
       Set_("a", v) =>
         /\ getAll("a")' = <<v>>
         /\ \A s \in SubIds : Subscribed(s) =>
              received'[s] =
                received[s]
                \o ChangesOf(getAll("a"), Retract, Len(callLog))
                \o <<[v |-> v, d |-> Insert, n |-> Len(callLog')]>>]_vars

C22_Witness ==
  /\ Subscribed(1)
  /\ getAll("a") = <<1>>
  /\ Strip(received[1]) =
       <<[v |-> 2, d |-> Insert], [v |-> 1, d |-> Insert],
         [v |-> 2, d |-> Retract], [v |-> 1, d |-> Retract], [v |-> 1, d |-> Insert]>>
  /\ received[1][2].n = 0 /\ received[1][3].n = 1

\* C23: update(f) on a non-empty Input whose first held value is c delivers
\* Retract(c) then Insert(f(c)) and replaces c by f(c) in the membership; on an
\* empty Input it does not call f, emits nothing and changes nothing.
C23_UpdateReplacesFirst ==
  [][\A f \in Fns :
       Update_("a", f) =>
         IF getAll("a") = <<>>
           THEN /\ getAll("a")' = <<>>
                /\ callLog' = callLog
                /\ trace' = trace
                /\ received' = received
           ELSE LET c == Head(getAll("a"))
                IN /\ getAll("a")' = SetAdd(SetDelete(getAll("a"), c), ApplyFn(f, c))
                   /\ FnArgs(f)' = Append(FnArgs(f), c)
                   /\ \A s \in SubIds : Subscribed(s) =>
                        received'[s] = received[s]
                          \o <<[v |-> c, d |-> Retract, n |-> Len(callLog) + 1],
                               [v |-> ApplyFn(f, c), d |-> Insert, n |-> Len(callLog) + 2]>>]_vars

C23_Witness ==
  /\ Subscribed(1)
  /\ getAll("a") = <<2>>
  /\ FnArgs("succ") = <<1>>
  /\ Strip(received[1]) =
       <<[v |-> 1, d |-> Insert], [v |-> 2, d |-> Insert],
         [v |-> 1, d |-> Retract], [v |-> 2, d |-> Insert]>>

\* ---- helpers for the claims on Context
\* Input.get(): the first of the values, undefined when there is none
get(c) == IF values[c] = <<>> THEN undefined ELSE Head(values[c])

\* The program makes one Context, ctx.
ContextMade == ops["reg"].contexts # <<>>
Disposed == ContextMade /\ ops["reg"].contexts[1].disposed

\* the get trap of ctx: context.current[key]
ProxyGet(key) == ops[ops["reg"].contexts[1].context].current[key]

\* C24: for a Context over the Inputs a and b, after any sequence of set()
\* calls outside tx, reading ctx.k returns inputs[k].get() for each key k.
C24_ProxyReadsInputs ==
  ContextMade =>
    /\ ProxyGet("a") = get("a")
    /\ ProxyGet("b") = get("b")

\* ---- helpers for the claims on the context-aware flatMap
\* The callback is subscribed to the context-aware flatMap node.
ListeningCtx == subAt[1] = {"fmc"}

\* The class of the flatMap node the program has built, "" before.
BuiltKind == IF ops["reg"].built = "" THEN "" ELSE ops[ops["reg"].built].kind

\* The rows f can return: [item, ctx.b]
CtxRows == {<<i, l>> : i \in Vals, l \in {undefined} \cup Vals}

\* C25: a flatMap built while a Context is registered, subscribed once: after
\* any upstream inserts and retracts and set() calls on the context's Input,
\* the fold of the downstream changes is the union over the held upstream
\* items of f(item) under the current context value; no row of an older
\* context value remains.
C25_FoldUnderCurrentContext ==
  (ListeningCtx /\ values["b"] # <<>>) =>
    \A row \in CtxRows :
      Count(received[1], row) =
        IF Has(values["a"], row[1]) /\ row[2] = get("b") THEN 1 ELSE 0

\* The changes of the rows [item, l] of the items, in order.
CtxChanges(items, l, d) == [k \in DOMAIN items |-> [v |-> <<items[k], l>>, d |-> d]]

\* C26: whether a flatMap node reacts to a Context is fixed when flatMap() is
\* called.  A node built with no context registered, as after ctx.dispose(),
\* is a plain flatMap and emits nothing when the context's Input is set; a
\* node built while the context was registered re-processes its items on every
\* set() of the context's Input after dispose: it retracts the rows of the old
\* value and inserts those of the new one, once per delivery of the new value.
C26_ReactionFixedAtBuild ==
  [][/\ (BuildFlatMap /\ Disposed) => BuiltKind' = "flatMap"
     /\ (BuildFlatMap /\ ContextMade /\ ~Disposed) => BuiltKind' = "flatMapCtx"
     /\ \A v \in Vals :
          (BuiltKind = "flatMap" /\ Set_("b", v)) => received'[1] = received[1]
     /\ \A v \in Vals :
          (ListeningCtx /\ Disposed /\ Set_("b", v)) =>
             LET items == Spread(ops["fmc"].currentItems)
             IN /\ Strip(received'[1]) = Strip(received[1])
                      \o (IF values["b"] = <<>> THEN <<>>
                          ELSE CtxChanges(items, get("b"), Retract))
                      \o CtxChanges(items, v, Insert)
                      \o CtxChanges(items, v, Retract)
                      \o CtxChanges(items, v, Insert)
                /\ FnArgs("flatMapFn")' = FnArgs("flatMapFn") \o items \o items]_vars

\* C26: reached: the context was disposed after the flatMap was built and
\* subscribed, then item 1 was inserted and b set from 1 to 2.
C26_Witness ==
  /\ ListeningCtx
  /\ SelectSeq(trace, LAMBDA e : e.f \in {"getRegisteredContexts", "unregister", "flatMapFn"})
       = <<[id |-> 0, f |-> "getRegisteredContexts", v |-> 0, d |-> 0],
           [id |-> 0, f |-> "unregister", v |-> 0, d |-> 0],
           [id |-> 0, f |-> "flatMapFn", v |-> 1, d |-> 0],
           [id |-> 0, f |-> "flatMapFn", v |-> 1, d |-> 0],
           [id |-> 0, f |-> "flatMapFn", v |-> 1, d |-> 0]>>
  /\ Strip(received[1]) = <<[v |-> <<1, 1>>, d |-> Insert], [v |-> <<1, 1>>, d |-> Retract],
                            [v |-> <<1, 2>>, d |-> Insert], [v |-> <<1, 2>>, d |-> Retract],
                            [v |-> <<1, 2>>, d |-> Insert]>>

\* The positions in tr of the Inserts delivered to the context callback of the
\* context-aware flatMap.
CtxInserts(tr) ==
  {k \in DOMAIN tr : tr[k].id \in ClosureIds("fcCtx") /\ tr[k].f = "" /\ tr[k].d = Insert}

\* C27: in a context-aware flatMap, while the context collection has
\* delivered no Insert, f is never invoked and nothing is emitted; upstream
\* inserts and retracts only update the tracked item set; when the first
\* context Insert arrives, by a set() of the context's Input, f is invoked
\* exactly once for each item then held upstream, in order, and for no item
\* retracted meanwhile, and the row of each item is inserted once.
C27_FirstContextOncePerItem ==
  [][(ListeningCtx /\ ~ops["fmc"].hasContext) =>
       /\ received[1] = <<>>
       /\ FnArgs("flatMapFn") = <<>>
       /\ CtxInserts(trace) = {}
       /\ Spread(ops["fmc"].currentItems) = values["a"]
       /\ \A l \in Vals :
            Set_("b", l) =>
              /\ FnArgs("flatMapFn")' = values["a"]
              /\ Strip(received'[1]) = CtxChanges(values["a"], l, Insert)]_vars

\* ---- helpers for the claims on exceptions
\* The callback's chain starts at Input c and holds a function that throws.
ThrowerOn(c) ==
  \/ c = "a" /\ subAt[1] \in {{"mp"}, {"fl"}, {"mf"}, {"rd"}}
  \/ subAt[1] = {"jn"}

\* C28: a map function, filter predicate, join key function or reduce folder
\* that throws on a delta of Input.insert or Input.retract outside tx: the
\* exception reaches the caller of that method (no operator catches it), and
\* no operator or subscriber further down the chain receives the delta.
C28_ThrowPropagates ==
  [][\A c \in {"a", "b"} :
       (ThrowerOn(c) /\ (Insert_(c, Bad) \/ Retract_(c, Bad))) =>
         /\ trace'[Len(trace')] = [id |-> 0, f |-> "throw", v |-> Bad, d |-> 0]
         /\ received'[1] = received[1]
         /\ subAt[1] = {"mf"} => ClosureLog("fl")' = ClosureLog("fl")
         /\ ops' = ops]_vars

\* C28, reached: the callback sits behind map then filter; insert(1) came
\* through as 2, then insert(Bad) threw out of the map function.
C28_Witness ==
  /\ subAt[1] = {"mf"}
  /\ callLog = <<[c |-> "a", v |-> 1, d |-> Insert], [c |-> "a", v |-> Bad, d |-> Insert]>>
  /\ Raised(Cur)
  /\ Strip(received[1]) = <<[v |-> 2, d |-> Insert]>>
  /\ Strip(ClosureLog("fl")) = <<[v |-> 2, d |-> Insert]>>
  /\ Strip(ClosureLog("mp")) = <<[v |-> 1, d |-> Insert], [v |-> Bad, d |-> Insert]>>

\* ---- helpers for the claims on nested tx
\* C29: tx called inside the fn of an outer tx: when the inner tx returns,
\* isBatching() is false and every emission queued so far, those of the outer
\* fn included, has been delivered; what the outer fn changes after that is
\* delivered at once and not queued.
C29_InnerTxEndsBatching ==
  [][/\ (txDepth = 2 /\ txDepth' = 1) =>
          /\ ~isBatching'
          /\ pendingEmits' = <<>>
          /\ \A s \in SubIds : received'[s] = received[s] \o QueuedFor(s)
     /\ (txDepth = 1 /\ txDepth' = 1 /\ txNested /\ ~isBatching /\ callLog' # callLog) =>
          /\ pendingEmits' = <<>>
          /\ \A s \in SubIds :
               LET e == callLog'[Len(callLog')]
               IN received'[s] =
                    IF e.c \in subAt[s]
                      THEN Append(received[s], [v |-> e.v, d |-> e.d, n |-> Len(callLog')])
                      ELSE received[s]]_vars

\* C29, reached: still inside the outer fn, after an inner tx returned, three
\* changes have been made and all three delivered, none is queued.
C29_Witness ==
  /\ txDepth = 1
  /\ txNested
  /\ ~isBatching
  /\ pendingEmits = <<>>
  /\ callLog = <<[c |-> "a", v |-> 1, d |-> Insert], [c |-> "b", v |-> 1, d |-> Insert],
                 [c |-> "a", v |-> 2, d |-> Insert]>>
  /\ Strip(received[1]) = <<[v |-> 1, d |-> Insert], [v |-> 1, d |-> Insert],
                            [v |-> 2, d |-> Insert]>>

\* ---- helpers for the claims on a second subscriber
\* Folding the snapshot into a reduce state, one Insert per item.
RECURSIVE FoldSnapshot(_, _)
FoldSnapshot(state, items) ==
  IF items = <<>> THEN state
  ELSE FoldSnapshot(reduceFn(state, Head(items), Insert), Tail(items))

\* The rows an index holds under key k.
IndexRows(index, k) == MapGetOr(index, k, <<>>)

\* C30: when a second callback subscribes to a join or a reduce that already
\* has a subscriber, the operator subscribes to its upstream again, the
\* upstream snapshot is replayed into the shared state a second time (the
\* join indexes get the snapshot rows once more, reduce folds the snapshot
\* again), and the resulting changes reach the first subscriber as well.
C30_SecondSubscriberReplays ==
  [][/\ (subAt[1] = {"jn"} /\ Subscribe(2, "jn")) =>
          /\ Len(subscribers'["a"]) = Len(subscribers["a"]) + 1
          /\ Len(subscribers'["b"]) = Len(subscribers["b"]) + 1
          /\ \A k \in {keyA(x) : x \in Vals} \cup {keyB(y) : y \in Vals} :
               /\ IndexRows(ops'["jn"].indexA, k) = IndexRows(ops["jn"].indexA, k)
                     \o SelectSeq(data["a"], LAMBDA x : keyA(x) = k)
               /\ IndexRows(ops'["jn"].indexB, k) = IndexRows(ops["jn"].indexB, k)
                     \o SelectSeq(data["b"], LAMBDA y : keyB(y) = k)
          /\ received'[1] = received[1] \o received'[2]
     /\ (subAt[1] = {"rd"} /\ Subscribe(2, "rd")) =>
          /\ Len(subscribers'["a"]) = Len(subscribers["a"]) + 1
          /\ ops'["rd"].state = FoldSnapshot(ops["rd"].state, data["a"])
          /\ received'[1] = received[1]
                \o (IF ops["rd"].hasEmitted THEN Tail(received'[2]) ELSE received'[2])
          /\ data["a"] # <<>> => Len(received'[1]) > Len(received[1])]_vars

\* C30, reached: a and b each hold 1, the first callback had the one joined
\* row; the second subscription has put each row twice into the indexes and
\* sent three more Inserts of the row to both callbacks.
C30_Witness ==
  /\ subAt[1] = {"jn"}
  /\ subAt[2] = {"jn"}
  /\ values["a"] = <<1>>
  /\ values["b"] = <<1>>
  /\ IndexRows(ops["jn"].indexA, 1) = <<1, 1>>
  /\ IndexRows(ops["jn"].indexB, 1) = <<1, 1>>
  /\ Strip(received[2]) = [k \in 1..3 |-> [v |-> <<1, 1>>, d |-> Insert]]
  /\ Strip(received[1]) = [k \in 1..4 |-> [v |-> <<1, 1>>, d |-> Insert]]

\* ---- helpers for the claims on chains of operators
\* The pairs of the equi-join of the rows the two Inputs hold.
CurrentJoin ==
  {<<x, y>> \in Vals \X Vals :
     Has(values["a"], x) /\ Has(values["b"], y) /\ keyA(x) = keyB(y)}

\* C31: a.join(b, kA, kB).flatMap(f) with one subscriber: after a row is
\* retracted from either side, flatMap has dropped the inner collection of
\* every pair holding that row and retracted its live values, so the fold of
\* the downstream changes only holds values of pairs of the current equi-join.
C31_JoinFlatMapFoldInJoin ==
  subAt[1] = {"jf"} =>
    \A x \in Vals : \A u \in InnerVals(x) :
      Count(received[1], u) > 0 => \E pair \in CurrentJoin : pair[1] = x

\* C32: after the only subscriber of a join over two Inputs has unsubscribed
\* and a new callback has subscribed to the same join, the fold of the changes
\* the new callback receives is the equi-join of the rows the Inputs hold,
\* each pair exactly once.
C32_ResubscribedJoinIsEquiJoin ==
  subAt[2] = {"jn"} =>
    \A pair \in Vals \X Vals :
      Count(received[2], pair) = IF pair \in CurrentJoin THEN 1 ELSE 0

\* C33: on each set() of the context's Input after the first context value,
\* outside tx, a context-aware flatMap with n live upstream items invokes f
\* exactly n times, once per live item, and emits the Retracts of all the
\* rows that were live before the first new Insert.
C33_ReprocessOncePerItem ==
  [][\A l \in Vals :
       (ListeningCtx /\ ops["fmc"].hasContext /\ Set_("b", l)) =>
          LET items == Spread(ops["fmc"].currentItems)
          IN /\ FnArgs("flatMapFn")' = FnArgs("flatMapFn") \o items
             /\ Strip(received'[1]) = Strip(received[1])
                   \o CtxChanges(items, get("b"), Retract)
                   \o CtxChanges(items, l, Insert)]_vars

\* C34: filterBy with one subscriber: when every upstream retract is of a
\* held item and every insert of an absent one, under any interleaving with
\* context changes the sum of the deltas delivered downstream for an item is
\* 0 or 1, and 0 for every item upstream no longer holds.
C34_FilterByMultiplicity ==
  (subAt[1] = {"fb"} /\ WellFormed(ClosureLog("fbUp"))) =>
    \A v \in Vals :
      /\ Count(received[1], v) \in {0, 1}
      /\ ~Has(values["a"], v) => Count(received[1], v) = 0

\* The fields of a context record, without the identity of the object.
Fields(r) == [a |-> r.a, b |-> r.b]

\* The context records a fold of the log holds, with their multiplicities:
\* the sum of the deltas per record, records compared field by field.
FoldOfRecords(log, r) ==
  LET hits == SelectSeq(log, LAMBDA e : Fields(e.v) = r)
  IN IF hits = <<>> THEN 0 ELSE Count([k \in DOMAIN hits |-> [v |-> r, d |-> hits[k].d]], r)

\* C35: after any sequence of set() calls on the Inputs of a Context with two
\* Inputs, the fold of the changes the combined context collection has emitted
\* holds exactly one record, whose fields are the current values of the Inputs.
\* Stated for the states in which both Inputs hold a value.
C35_CombinedHoldsOneRecord ==
  (ContextMade /\ callLog # <<>>
     /\ get("a") # undefined /\ get("b") # undefined) =>
    \A x \in {undefined} \cup Vals, y \in {undefined} \cup Vals :
      FoldOfRecords(ClosureLog("ctxCur"), [a |-> x, b |-> y]) =
        IF x = get("a") /\ y = get("b") THEN 1 ELSE 0

\* ---- helpers for the claims on subscribing and reading inside tx
\* The Input.emit calls of Input c, in order.
CallsOn(c) == SelectSeq(callLog, LAMBDA e : e.c = c)

\* C36: a callback that subscribes to an Input inside tx(fn), after fn has
\* mutated that Input, receives the Insert of each held value exactly once in
\* total, replay and flush together: once tx has returned, the fold of the
\* changes it received is getAll().  Stated for every callback subscribed to
\* a, inside tx or not, when the inserts and retracts are well formed.
C36_SubscribeInTxFoldIsGetAll ==
  (txDepth = 0 /\ subAt[2] = {"a"} /\ WellFormed(CallsOn("a"))) =>
    \A v \in Vals :
      Count(received[2], v) = IF Has(getAll("a"), v) THEN 1 ELSE 0

\* C37: inside tx(fn), get(), getAll() and find() of an Input reflect every
\* mutation fn has made so far, while no subscriber has been notified of any
\* of them: each insert or retract made while batching changes the three
\* reads at once and calls no callback.
C37_ReadsSeeMutationsInTx ==
  [][/\ (txDepth = 1 /\ ~txNested /\ isBatching) =>
          \A s \in SubIds : \A k \in DOMAIN received[s] : received[s][k].n <= txStart
     /\ (isBatching /\ txDepth' = txDepth /\ callLog' # callLog
           /\ callLog'[Len(callLog')].c = "a") =>
             LET e == callLog'[Len(callLog')]
                 now == IF e.d = Insert THEN SetAdd(getAll("a"), e.v)
                        ELSE SetDelete(getAll("a"), e.v)
             IN /\ getAll("a")' = now
                /\ get("a")' = (IF now = <<>> THEN undefined ELSE Head(now))
                /\ \A accepted \in SUBSET Vals : find("a", accepted)' = FirstIn(now, accepted)
                /\ received' = received]_vars

\* C37, reached: inside a top-level tx, after insert(1), insert(2) and
\* retract(1), the reads give 2 and no callback has been called.
C37_Witness ==
  /\ txDepth = 1
  /\ ~txNested
  /\ isBatching
  /\ callLog = <<[c |-> "a", v |-> 1, d |-> Insert], [c |-> "a", v |-> 2, d |-> Insert],
                 [c |-> "a", v |-> 1, d |-> Retract]>>
  /\ getAll("a") = <<2>>
  /\ get("a") = 2
  /\ find("a", {1}) = undefined
  /\ Len(pendingEmits) = 3
  /\ \A s \in SubIds : received[s] = <<>>

\* ---- helpers for the claim on the state tx leaves behind
\* The entries a step appended to the log of callback id.
NewlyReceived(id) == SubSeq(received[id]', Len(received[id]) + 1, Len(received[id]'))

\* The callback a calls first.
FirstOf(c) == subscribers[c][1].id

\* C38: isBatching() is true throughout the fn of a top-level tx; when tx has
\* returned or thrown, also when a callback threw during the flush,
\* isBatching() is false and the queue is empty; no later step delivers a
\* change scheduled before it, and a mutation made outside tx is delivered
\* within the call.
C38_TxLeavesNothingBehind ==
  [][/\ (txDepth = 1 /\ ~txNested) => isBatching
     /\ (txDepth = 1 /\ txDepth' = 0) =>
          /\ ~isBatching'
          /\ pendingEmits' = <<>>
     /\ txDepth = 0 =>
          \A id \in DOMAIN received : \A k \in DOMAIN NewlyReceived(id) :
            NewlyReceived(id)[k].n = 0 \/ NewlyReceived(id)[k].n > Len(callLog)
     /\ (txDepth = 0 /\ txDepth' = 0 /\ callLog' # callLog /\ subscribers["a"] # <<>>) =>
          LET e == callLog'[Len(callLog')]
          IN NewlyReceived(FirstOf("a")) = <<[v |-> e.v, d |-> e.d, n |-> Len(callLog')]>>
    ]_vars

\* C38, reached: tx(() => { a.insert(Bad); a.insert(1) }) has thrown from the
\* flush, the map's callback having thrown on Bad; the emission of 1 was
\* never run, the exception was caught, and a.insert(2) made after that was
\* delivered.
C38_Witness ==
  /\ txDepth = 0
  /\ txExit = "throw"
  /\ txCount = 2
  /\ ~isBatching
  /\ pendingEmits = <<>>
  /\ callLog = <<[c |-> "a", v |-> Bad, d |-> Insert], [c |-> "a", v |-> 1, d |-> Insert],
                 [c |-> "a", v |-> 2, d |-> Insert]>>
  /\ subAt[1] = {"mp"}
  /\ ClosureLog("mp") = <<[v |-> Bad, d |-> Insert, n |-> 1], [v |-> 2, d |-> Insert, n |-> 3]>>
  /\ Strip(received[1]) = <<[v |-> mapFn(2), d |-> Insert]>>

\* ---- helpers for the claim on the tuples of withLatest
\* The entries of the flatMap over withLatest: key [tuple, object], and the
\* unsubscribe function of the inner subscription.
WfEntries == ops["wf"].innerUnsubs
TupleOf(e) == e.k[1]
ObjectOf(e) == e.k[2]

\* The object withLatest stores for item, if any.
StoredObject(item) == MapGetOr(ops["wl"].tupleOids, item, 0)

\* The flatMap holds one entry per tuple it was given as Insert and not as
\* Retract, the stored tuple of every item among them, and the callback of
\* every entry is subscribed to the tuple's inner Input.
WfEntriesMatchLog ==
  /\ \A t \in Vals \X Vals :
       Cardinality({k \in DOMAIN WfEntries : TupleOf(WfEntries[k]) = t})
         = Count(ClosureLog("fmUp"), t)
  /\ Len(ops["wf"].innerValues) = Len(WfEntries)
  /\ \A x \in Vals :
       MapHas(ops["wl"].tupleOids, x) =>
         MapHas(WfEntries, <<MapGet(ops["wl"].emittedTuples, x), StoredObject(x)>>)
  /\ \A x \in Vals :
       Len(subscribers[flatMapFn(x)])
         = Cardinality({k \in DOMAIN WfEntries : TupleOf(WfEntries[k])[1] = x})

\* C39: every Retract withLatest emits carries the array object it emitted
\* in its latest Insert for that item: a flatMap over it, which keys its
\* entries by that object, finds the entry on every Retract, unsubscribes the
\* inner collection and deletes the entry.  The entry a step removes is the
\* one of the object stored for the item before the step.
C39_RetractCarriesStoredTuple ==
  [][subAt[1] = {"wf"} =>
       /\ WfEntriesMatchLog'
       /\ \A k \in DOMAIN WfEntries :
            ~MapHas(WfEntries', WfEntries[k].k) =>
               ObjectOf(WfEntries[k]) = StoredObject(TupleOf(WfEntries[k])[1])
    ]_vars

\* C39, reached: with the callback subscribed to wf, a.insert(1), b.insert(2)
\* and a.retract(1) leave the flatMap without entries and the inner Input
\* without subscribers, three tuples having been inserted and retracted.
C39_Witness ==
  /\ subAt[1] = {"wf"}
  /\ Len(callLog) = 3
  /\ callLog[3] = [c |-> "a", v |-> 1, d |-> Retract]
  /\ \E l \in Vals : \E m \in Vals \ {l} :
       Strip(ClosureLog("fmUp")) =
         <<[v |-> <<1, l>>, d |-> Insert], [v |-> <<1, l>>, d |-> Retract],
           [v |-> <<1, m>>, d |-> Insert], [v |-> <<1, m>>, d |-> Retract]>>
  /\ WfEntries = <<>>
  /\ ops["wf"].innerValues = <<>>
  /\ subscribers[flatMapFn(1)] = <<>>
  /\ Strip(received[1]) =
       <<[v |-> 10, d |-> Insert], [v |-> 10, d |-> Retract],
         [v |-> 10, d |-> Insert], [v |-> 10, d |-> Retract]>>

====
